---- MODULE Spec2Model ----
(***************************************************************************)
(* Process supervision engine of bot.py: identifier scheme, ownership      *)
(* store, process registry, lifecycle controller and watchdog.             *)
(*                                                                         *)
(* Strings are sequences of one-character strings, so that the string      *)
(* operations of the source (split, count, startswith, replace, ...) are   *)
(* computed and not assumed.  Python's None is the one-element sequence    *)
(* <<"None">>, which no string of the model equals.                        *)
(***************************************************************************)
EXTENDS Integers, Sequences, FiniteSets, TLC

(***************************************************************************)
(* Bounds of the model                                                     *)
(***************************************************************************)
\* number of process handles that can be alive or registered at once
MaxProcs == 2
\* number of clock advances in one behaviour
MaxAdvances == 1
\* wall-clock reading (epoch seconds) when the host boots
BootTime == 1000
\* number of distinct access keys secrets.token_urlsafe can return
NumKeys == 1

(***************************************************************************)
(* Configuration (module level of bot.py)                                  *)
(***************************************************************************)
ADMIN_ID == 0
HEALTHCHECK_INTERVAL_SEC == 20
ALERT_COOLDOWN_SEC == 180

None == <<"None">>
UPLOAD_DIR == <<"s","c","r","i","p","t","s">>
SEP == "/"
REQUIREMENTS == <<"r","e","q","u","i","r","e","m","e","n","t","s",".","t","x","t">>
PACKAGE_JSON == <<"p","a","c","k","a","g","e",".","j","s","o","n">>

(***************************************************************************)
(* String helpers (Python str / os.path semantics)                         *)
(***************************************************************************)
Digits == {"0","1","2","3","4","5","6","7","8","9"}

\* s.count(c) for a one-character c
RECURSIVE Count(_, _)
Count(s, c) ==
    IF s = <<>> THEN 0
    ELSE (IF Head(s) = c THEN 1 ELSE 0) + Count(Tail(s), c)

\* c in s
Contains(s, c) == \E i \in 1..Len(s) : s[i] = c

\* s.startswith(p)
StartsWith(s, p) == Len(s) >= Len(p) /\ SubSeq(s, 1, Len(p)) = p

\* s.endswith(p)
EndsWith(s, p) == Len(s) >= Len(p) /\ SubSeq(s, Len(s) - Len(p) + 1, Len(s)) = p

\* index of the first c in s (0 when absent)
FirstIndex(s, c) ==
    IF Contains(s, c) THEN CHOOSE i \in 1..Len(s) : s[i] = c /\ \A j \in 1..(i-1) : s[j] # c
    ELSE 0

\* index of the last c in s (0 when absent)
LastIndex(s, c) ==
    IF Contains(s, c) THEN CHOOSE i \in 1..Len(s) : s[i] = c /\ \A j \in (i+1)..Len(s) : s[j] # c
    ELSE 0

\* s.split(c, 1): <<head, tail>> around the first c (only used when c in s)
Split1(s, c) ==
    LET i == FirstIndex(s, c)
    IN  IF i = 0 THEN <<s, <<>>>>
        ELSE <<SubSeq(s, 1, i - 1), SubSeq(s, i + 1, Len(s))>>

\* s.split(c)[-1]
LastPart(s, c) == SubSeq(s, LastIndex(s, c) + 1, Len(s))

\* s.isdigit(): non-empty and every character a digit
IsDigit(s) == s # <<>> /\ \A i \in 1..Len(s) : s[i] \in Digits

\* s.replace(a, b) for one-character a, b
Replace(s, a, b) == [i \in 1..Len(s) |-> IF s[i] = a THEN b ELSE s[i]]

\* s.lower() over the letters the model uses
LowerChar(c) ==
    CASE c = "A" -> "a" [] c = "C" -> "c" [] c = "D" -> "d" [] c = "E" -> "e"
      [] c = "H" -> "h" [] c = "J" -> "j" [] c = "L" -> "l" [] c = "O" -> "o"
      [] c = "P" -> "p" [] c = "R" -> "r" [] c = "S" -> "s" [] c = "Y" -> "y"
      [] OTHER -> c
Lower(s) == [i \in 1..Len(s) |-> LowerChar(s[i])]

\* os.path.join(a, b)
PathJoin(a, b) ==
    IF b # <<>> /\ Head(b) = SEP THEN b
    ELSE IF a = <<>> \/ a[Len(a)] = SEP THEN a \o b
    ELSE a \o <<SEP>> \o b

(***************************************************************************)
(* Identifier scheme                                                       *)
(***************************************************************************)
is_user_file_id(tid) ==
    /\ StartsWith(tid, <<"u">>)
    /\ Contains(tid, "|")
    /\ Count(tid, "|") = 1
    /\ IsDigit(Tail(Split1(tid, "|")[1]))

\* an is_repo_id that would not exclude the user-file identifiers
is_repo_id_any_separator(tid) == Contains(tid, "|")

is_repo_id(tid) == Contains(tid, "|") /\ ~is_user_file_id(tid)

resolve_paths(tid) ==
    IF is_user_file_id(tid) THEN
        LET filename == Split1(tid, "|")[2]
            uid      == Tail(Split1(tid, "|")[1])
            work_dir == PathJoin(UPLOAD_DIR, uid)
        IN  [work_dir |-> work_dir,
             script |-> filename,
             env_path |-> PathJoin(work_dir, <<".","e","n","v">>),
             req_path |-> PathJoin(work_dir, REQUIREMENTS),
             full_script_path |-> PathJoin(work_dir, filename)]
    ELSE IF is_repo_id(tid) THEN
        LET repo     == Split1(tid, "|")[1]
            file     == Split1(tid, "|")[2]
            work_dir == PathJoin(UPLOAD_DIR, repo)
        IN  [work_dir |-> work_dir,
             script |-> file,
             env_path |-> PathJoin(work_dir, <<".","e","n","v">>),
             req_path |-> PathJoin(work_dir, REQUIREMENTS),
             full_script_path |-> PathJoin(work_dir, file)]
    ELSE
        [work_dir |-> UPLOAD_DIR,
         script |-> tid,
         env_path |-> PathJoin(UPLOAD_DIR, tid \o <<".","e","n","v">>),
         req_path |-> PathJoin(UPLOAD_DIR, tid \o <<"_","r","e","q",".","t","x","t">>),
         full_script_path |-> PathJoin(UPLOAD_DIR, tid)]

\* os.path.join(UPLOAD_DIR, f"{tid.replace('|','_')}.log")
log_path_of(tid) == PathJoin(UPLOAD_DIR, Replace(tid, "|", "_") \o <<".","l","o","g">>)

(***************************************************************************)
(* Python dict as its item list (insertion ordered), as json.load returns  *)
(* it and json.dump writes it                                              *)
(***************************************************************************)
\* k in d
DictHas(d, k) == \E i \in 1..Len(d) : d[i].k = k

\* d[k]
DictGet(d, k) == d[CHOOSE i \in 1..Len(d) : d[i].k = k].v

\* d[k] = v
DictSet(d, k, v) ==
    IF DictHas(d, k) THEN [i \in 1..Len(d) |-> IF d[i].k = k THEN [k |-> k, v |-> v] ELSE d[i]]
    ELSE Append(d, [k |-> k, v |-> v])

\* del d[k]
DictDel(d, k) == SelectSeq(d, LAMBDA it : it.k # k)

\* list(d.keys())
DictKeys(d) == [i \in 1..Len(d) |-> d[i].k]

(***************************************************************************)
(* JSON store: the ownership file is [exists, valid, dict, data]           *)
(***************************************************************************)
NoUid == ADMIN_ID - 1
NoKey == 0

\* _read_json(OWNERSHIP_FILE, {})
_read_json(file, default) ==
    IF ~file.exists THEN default
    ELSE IF ~file.valid THEN default
    ELSE file.data

\* _write_json(OWNERSHIP_FILE, obj): temp file, then os.replace
_write_json(obj) == [exists |-> TRUE, valid |-> TRUE, dict |-> TRUE, data |-> obj]

load_ownership(file) == _read_json(file, <<>>)

\* json.load gave a value that is no dict: the .get(), .items() or data[tid] that a
\* caller of load_ownership() applies to it raises
not_a_dict(file) == file.exists /\ file.valid /\ ~file.dict

save_ownership_record(file, tid, record) ==
    _write_json(DictSet(load_ownership(file), tid, record))

delete_ownership(file, tid) ==
    LET data == load_ownership(file)
    IN  IF DictHas(data, tid) THEN _write_json(DictDel(data, tid)) ELSE file

get_owner(file, tid) ==
    LET data == load_ownership(file)
    IN  IF DictHas(data, tid) THEN DictGet(data, tid).owner ELSE NoUid

get_app_key(file, tid) ==
    LET data == load_ownership(file)
    IN  IF DictHas(data, tid) THEN DictGet(data, tid).key ELSE NoKey

get_entry(file, tid) ==
    LET data == load_ownership(file)
    IN  IF DictHas(data, tid) THEN DictGet(data, tid).entry ELSE None

\* a set_last_run that would update only the loaded copy, never the file
set_last_run_unsaved(file, tid, value) == file

set_last_run(file, tid, value) ==
    LET data == load_ownership(file)
    IN  IF DictHas(data, tid)
        THEN _write_json(DictSet(data, tid, [DictGet(data, tid) EXCEPT !.last_run = value]))
        ELSE file

\* restart_process_background, "if tid in data: data[tid]["entry"] = chosen", of a
\* repository identifier
set_entry(file, tid, chosen) ==
    LET data == load_ownership(file)
    IN  IF DictHas(data, tid)
        THEN _write_json(DictSet(data, tid, [DictGet(data, tid) EXCEPT !.entry = chosen]))
        ELSE file

\* a rename that would write a fresh record under the new identifier instead of
\* moving the old one
rename_record_rekeyed(file, uid, old_tid, new_tid, filename, key) ==
    LET data == load_ownership(file)
    IN  _write_json(DictDel(DictSet(data, new_tid,
                        [owner |-> uid, type |-> "repo", key |-> key, last_run |-> FALSE, entry |-> filename]),
                    old_tid))

\* select_git_file: the record of old_tid moves to new_tid with its entry set; where
\* old_tid has none, a new record is saved (key: a fresh token)
rename_record(file, uid, old_tid, new_tid, filename, key) ==
    LET data == load_ownership(file)
        moved == DictDel(DictSet(data, new_tid, [DictGet(data, old_tid) EXCEPT !.entry = filename]), old_tid)
    IN  IF DictHas(data, old_tid)
        THEN _write_json(moved)
        ELSE save_ownership_record(file, new_tid,
                [owner |-> uid, type |-> "repo", key |-> key, last_run |-> FALSE, entry |-> filename])

\* meta.get("last_run") is True, for the record of tid
desired_running(file, tid) ==
    LET data == load_ownership(file)
    IN  DictHas(data, tid) /\ DictGet(data, tid).last_run = TRUE

(***************************************************************************)
(* File system under UPLOAD_DIR: fs.paths are the regular files that       *)
(* exist, fs.starts the working directories whose package.json declares a  *)
(* "start" script                                                          *)
(***************************************************************************)
Exists(fs, path) == path \in fs.paths

\* characters in ASCII order, for sorted()
Alphabet ==
    <<".", "/", "0", "1", "2", "3", "4", "5", "6", "7", "8", "9",
      "A", "C", "D", "E", "H", "J", "L", "O", "P", "R", "S", "Y", "_",
      "a", "b", "c", "d", "e", "g", "h", "i", "j", "k", "l", "m", "n", "o",
      "p", "q", "r", "s", "t", "u", "v", "x", "y", "|">>
Ord(c) == CHOOSE i \in 1..Len(Alphabet) : Alphabet[i] = c

\* a < b for Python strings
RECURSIVE StrLess(_, _)
StrLess(a, b) ==
    IF b = <<>> THEN FALSE
    ELSE IF a = <<>> THEN TRUE
    ELSE IF Head(a) = Head(b) THEN StrLess(Tail(a), Tail(b))
    ELSE Ord(Head(a)) < Ord(Head(b))

\* sorted(S) for a finite set of strings
RECURSIVE Sorted(_)
Sorted(S) ==
    IF S = {} THEN <<>>
    ELSE LET m == CHOOSE x \in S : \A y \in S \ {x} : StrLess(x, y)
         IN  <<m>> \o Sorted(S \ {m})

\* list_files_safe(work_dir): sorted relative paths of the files under work_dir
list_files_safe(fs, work_dir) ==
    LET prefix == work_dir \o <<SEP>>
        rels == {SubSeq(p, Len(prefix) + 1, Len(p)) : p \in {q \in fs.paths : StartsWith(q, prefix)}}
        kept == {r \in rels :
                    /\ ~StartsWith(r, <<".","g","i","t","/">>)
                    /\ ~StartsWith(r, <<"n","o","d","e","_","m","o","d","u","l","e","s","/">>)
                    /\ ~EndsWith(r, <<".","p","y","c">>)}
    IN  Sorted(kept)

Runnable(f) ==
    \/ EndsWith(f, <<".","p","y">>)
    \/ EndsWith(f, <<".","j","s">>)
    \/ EndsWith(f, <<".","s","h">>)

(***************************************************************************)
(* Run command                                                             *)
(***************************************************************************)
by_ext(path_rel) ==
    LET ext == Lower(LastPart(path_rel, "."))
    IN  IF ext = <<"j","s">> THEN <<"node", path_rel>>
        ELSE IF ext = <<"s","h">> THEN <<"bash", path_rel>>
        ELSE <<"python", "-u", path_rel>>

CANDIDATES ==
    << <<"m","a","i","n",".","p","y">>, <<"a","p","p",".","p","y">>,
       <<"s","e","r","v","e","r",".","p","y">>, <<"b","o","t",".","p","y">>,
       <<"i","n","d","e","x",".","j","s">>, <<"s","e","r","v","e","r",".","j","s">>,
       <<"s","t","a","r","t",".","s","h">> >>

\* resolve_run_command: [found, cmd, chosen]; found = FALSE is the (None, None) result
resolve_run_command(fs, work_dir, script_rel) ==
    LET pkg == PathJoin(work_dir, PACKAGE_JSON)
        present == {i \in 1..Len(CANDIDATES) : Exists(fs, PathJoin(work_dir, CANDIDATES[i]))}
        listed == SelectSeq(list_files_safe(fs, work_dir), Runnable)
    IN  IF /\ Exists(fs, pkg)
           /\ work_dir \in fs.starts
           /\ (script_rel = None \/ EndsWith(script_rel, <<".","j","s">>))
        THEN [found |-> TRUE, cmd |-> <<"npm", "start">>, chosen |-> None]
        ELSE IF script_rel # None /\ script_rel # <<>>
        THEN [found |-> TRUE, cmd |-> by_ext(script_rel), chosen |-> script_rel]
        ELSE IF present # {}
        THEN LET c == CANDIDATES[CHOOSE i \in present : \A j \in present : i <= j]
             IN  [found |-> TRUE, cmd |-> by_ext(c), chosen |-> c]
        ELSE IF listed # <<>>
        THEN [found |-> TRUE, cmd |-> by_ext(listed[1]), chosen |-> listed[1]]
        ELSE [found |-> FALSE, cmd |-> <<>>, chosen |-> None]

(***************************************************************************)
(* Identifiers, users and inputs of the model                              *)
(***************************************************************************)
JOB_PY == <<"j","o","b",".","p","y">>
MAIN_PY == <<"m","a","i","n",".","p","y">>
PLACEHOLDER == <<"P","L","A","C","E","H","O","L","D","E","R">>

\* str(uid)
UidStr(uid) == IF uid = 0 THEN <<"0">> ELSE IF uid = 1 THEN <<"1">> ELSE <<"2">>

\* the chat user who uploads and clones, and a second user who owns nothing
UPLOADER == ADMIN_ID + 1
STRANGER == ADMIN_ID + 2
Uids == {ADMIN_ID, UPLOADER, STRANGER}

\* f"u{uid}|{fname}" (receive_file)
UserFileId(uid, fname) == <<"u">> \o UidStr(uid) \o <<"|">> \o fname
\* f"{base_repo}_u{uid}" for the repository "r" (receive_git_url)
RepoName(uid) == <<"r","_","u">> \o UidStr(uid)
\* f"{repo_name}|{filename}"
RepoId(repo_name, filename) == repo_name \o <<"|">> \o filename

U == UserFileId(UPLOADER, JOB_PY)
P == RepoId(RepoName(UPLOADER), PLACEHOLDER)
R == RepoId(RepoName(UPLOADER), MAIN_PY)
TIDs == {U, P, R}

Pids == 1..MaxProcs
Keys == 1..NumKeys

\* what a cloned repository can hold: [files, start]
RepoContents ==
    { [files |-> {}, start |-> FALSE],
      [files |-> {MAIN_PY}, start |-> FALSE],
      [files |-> {PACKAGE_JSON}, start |-> TRUE] }

(***************************************************************************)
(* State                                                                   *)
(***************************************************************************)
\* the identifier scheme, tabulated over the identifiers of the model
paths_of == [t \in TIDs |-> resolve_paths(t)]
repo_ids == [t \in TIDs |-> is_repo_id(t)]
user_file_ids == [t \in TIDs |-> is_user_file_id(t)]
log_paths == [t \in TIDs |-> log_path_of(t)]

VARIABLES
    OWNERSHIP_FILE,      \* ownership.json: [exists, valid, dict, data]
    running_processes,   \* the registry: items [tid, process, log, started_at, last_alert]
    procs,               \* child process groups: [Pids -> [tid, alive, termed]]
    fs,                  \* [paths, starts]
    now,                 \* time.time()
    advances,            \* clock advances so far
    wd,                  \* the watchdog task: position, watch list left, this tick's log
    hist,                \* per identifier: the previous tick's visit and the last alerts sent
    lastOp,              \* the start/stop call that produced this state
    next_tick,           \* the time from which run_repeating fires watchdog_job again
    user_data,           \* context.user_data of the uploader, and where their conversation is
    phase,               \* "boot" until __main__ has run its auto-start, then "serving"
    scope,               \* the identifiers the users of this behaviour work with
    observe,             \* what is recorded besides the program's own state:
                         \*   groups: process groups the registry no longer refers to
                         \*   alerts: the notification history (hist)
    sweep,               \* the start calls of the auto-start sweep that produced this state
    ENABLE_ALERTS,       \* the switch read from the environment when the module loads
    call,                \* a function of the program, its arguments and what it returned
    store_io             \* ownership.json under way: the write in progress, the .tmp
                         \* file, what the HTTP thread read last

vars == <<OWNERSHIP_FILE, running_processes, procs, fs, now, advances, wd, hist, lastOp,
          next_tick, user_data, phase, scope, observe, sweep, ENABLE_ALERTS, call, store_io>>

(***************************************************************************)
(* Registry (running_processes) and child processes                        *)
(***************************************************************************)
\* tid in running_processes
RegHas(rp, tid) == \E e \in rp : e.tid = tid

\* running_processes[tid]
RegGet(rp, tid) == CHOOSE e \in rp : e.tid = tid

\* an assignment that would keep the item it replaces
RegSet_keeping(rp, tid, entry) == rp \cup {entry}

\* running_processes[tid] = entry
RegSet(rp, tid, entry) == {e \in rp : e.tid # tid} \cup {entry}

\* running_processes.pop(tid, None)
RegPop(rp, tid) == {e \in rp : e.tid # tid}

FreeProc == [tid |-> None, alive |-> FALSE, termed |-> FALSE]

\* rp["process"].poll() is None
poll_is_None(ps, pid) == ps[pid].alive

\* os.killpg(os.getpgid(pid), SIGTERM) inside try/except: the signal reaches a
\* live group; for a group that is gone the error is swallowed
killpg(ps, pid) ==
    IF ps[pid].alive THEN [ps EXCEPT ![pid].termed = TRUE] ELSE ps

\* the handle a new Popen gets: one that is neither alive nor registered (0: none left)
NewPid(ps, rp) ==
    LET free == {p \in Pids : ~ps[p].alive /\ \A e \in rp : e.process # p}
    IN  IF free = {} THEN 0 ELSE CHOOSE p \in free : \A q \in free : p <= q

\* Process groups that no registry item refers to are invisible to the program.
\* With keep they stay in the state while they are alive; otherwise they are forgotten.
Collect(ps, rp, keep) ==
    [p \in Pids |-> IF (keep /\ ps[p].alive) \/ \E e \in rp : e.process = p THEN ps[p] ELSE FreeProc]

(***************************************************************************)
(* History records                                                         *)
(***************************************************************************)
\* lastOp: the call, its outcome, who called, whether its error left the caller, and
\* what held before it: had (a registry item), old (its handle), sig (SIGTERM reached
\* a live group), lr (desired-running)
NoOp == [op |-> "none", tid |-> None, out |-> "none", caller |-> "none", propagated |-> FALSE,
         had |-> FALSE, old |-> 0, sig |-> FALSE, lr |-> FALSE]

NoVisit == [at |-> 0, down |-> FALSE, alerted |-> FALSE]
NoHist == [prev |-> NoVisit, down_at |-> 0, res_at |-> 0]

\* user_data: the target_id key, and the state the ConversationHandler holds
NoUserData == [target_id |-> None, state |-> "END"]

\* no function called yet
NoCall == [fn |-> "none", args |-> <<>>, result |-> <<>>]

\* a store mutation: the call of a handler that reads ownership.json and writes it back
NoMutation == [op |-> "none", tid |-> None, new_tid |-> None, flag |-> FALSE, key |-> NoKey]

\* no write under way, no .tmp file, nothing begun, ended or read yet
NoStoreIo ==
    [txns |-> <<>>,
     tmp |-> [exists |-> FALSE, valid |-> FALSE, dict |-> TRUE, data |-> <<>>],
     begun |-> 0,
     last |-> [m |-> NoMutation, outcome |-> "none", base |-> <<>>, wrote |-> <<>>],
     seen |-> [m |-> NoMutation, base |-> <<>>, data |-> <<>>]]

IdleWd == [pc |-> "idle", cur |-> None, owner |-> NoUid, rest |-> <<>>,
           watch |-> {},
           seen |-> [t \in scope |-> "none"],
           alerted |-> [t \in scope |-> FALSE],
           starts |-> [t \in scope |-> 0],
           pair |-> [t \in scope |-> 0 - 1]]

\* a "no command" return that would also drop the item of the signalled process
no_command_forgets(w, op) ==
    [w EXCEPT !.rp = RegPop(w.rp, op.tid), !.op = [op EXCEPT !.out = "no_cmd"]]

\* "if not cmd: logger.error(...); return" of restart_process_background
no_command(w, op) == [w EXCEPT !.op = [op EXCEPT !.out = "no_cmd"]]

(***************************************************************************)
(* Lifecycle controller.  A world w holds the state the calls read and     *)
(* write: [file, rp, procs, fs, now, op, full, wd, hist].                   *)
(***************************************************************************)
\* restart_process_background(tid); spawn_ok = FALSE: makedirs/open/Popen raises
restart_process_background(w, tid, spawn_ok) ==
    LET paths  == paths_of[tid]
        had    == RegHas(w.rp, tid)
        old    == IF had THEN RegGet(w.rp, tid).process ELSE 0
        ps1    == IF had THEN killpg(w.procs, old) ELSE w.procs
        entry  == get_entry(w.file, tid)
        res    == IF repo_ids[tid]
                  THEN resolve_run_command(w.fs, paths.work_dir, entry)
                  ELSE resolve_run_command(w.fs, paths.work_dir, paths.script)
        file1  == IF repo_ids[tid] THEN set_entry(w.file, tid, res.chosen) ELSE w.file
        pid    == NewPid(ps1, w.rp)
        op     == [op |-> "start", tid |-> tid, out |-> "none", caller |-> "none",
                   propagated |-> FALSE, had |-> had, old |-> old,
                   sig |-> had /\ w.procs[old].alive, lr |-> desired_running(w.file, tid)]
    IN  IF ~res.found
        THEN no_command([w EXCEPT !.procs = ps1], op)
        ELSE IF ~spawn_ok
        THEN [w EXCEPT !.procs = ps1, !.file = file1,
                       !.op = [op EXCEPT !.out = "raised", !.propagated = TRUE]]
        ELSE IF pid = 0
        THEN [w EXCEPT !.full = TRUE]
        ELSE [w EXCEPT
                !.procs = [ps1 EXCEPT ![pid] = [tid |-> tid, alive |-> TRUE, termed |-> FALSE]],
                !.rp = RegSet(w.rp, tid, [tid |-> tid, process |-> pid, log |-> log_paths[tid],
                                          started_at |-> w.now, last_alert |-> 0]),
                !.file = set_last_run(file1, tid, TRUE),
                !.op = [op EXCEPT !.out = "spawned"]]

\* a stop_process that would clear the flag only where it found a registry item
stop_process_flag_inside(w, tid) ==
    LET had == RegHas(w.rp, tid)
        old == IF had THEN RegGet(w.rp, tid).process ELSE 0
        op  == [op |-> "stop", tid |-> tid, out |-> "stopped", caller |-> "none",
                propagated |-> FALSE, had |-> had, old |-> old,
                sig |-> had /\ w.procs[old].alive, lr |-> desired_running(w.file, tid)]
    IN  [w EXCEPT
            !.procs = IF had THEN killpg(w.procs, old) ELSE w.procs,
            !.rp = IF had THEN RegPop(w.rp, tid) ELSE w.rp,
            !.file = IF had THEN set_last_run(w.file, tid, FALSE) ELSE w.file,
            !.op = op]

\* a stop_process that would pop the item inside the try, after a killpg that
\* raises for a group already gone
stop_process_pop_in_try(w, tid) ==
    LET had == RegHas(w.rp, tid)
        old == IF had THEN RegGet(w.rp, tid).process ELSE 0
        op  == [op |-> "stop", tid |-> tid, out |-> "stopped", caller |-> "none",
                propagated |-> FALSE, had |-> had, old |-> old,
                sig |-> had /\ w.procs[old].alive, lr |-> desired_running(w.file, tid)]
    IN  [w EXCEPT
            !.procs = IF had THEN killpg(w.procs, old) ELSE w.procs,
            !.rp = IF had /\ w.procs[old].alive THEN RegPop(w.rp, tid) ELSE w.rp,
            !.file = set_last_run(w.file, tid, FALSE),
            !.op = op]

\* stop_process(tid)
stop_process(w, tid) ==
    LET had == RegHas(w.rp, tid)
        old == IF had THEN RegGet(w.rp, tid).process ELSE 0
        op  == [op |-> "stop", tid |-> tid, out |-> "stopped", caller |-> "none",
                propagated |-> FALSE, had |-> had, old |-> old,
                sig |-> had /\ w.procs[old].alive, lr |-> desired_running(w.file, tid)]
    IN  [w EXCEPT
            !.procs = IF had THEN killpg(w.procs, old) ELSE w.procs,
            !.rp = IF had THEN RegPop(w.rp, tid) ELSE w.rp,
            !.file = set_last_run(w.file, tid, FALSE),
            !.op = op]

\* a call inside try/except Exception: the error is logged, not raised
Swallow(w) == [w EXCEPT !.op = [w.op EXCEPT !.propagated = FALSE]]

\* who called
By(w, caller) == [w EXCEPT !.op = [w.op EXCEPT !.caller = caller]]

\* auto_start_last_run_apps(), over the keys left of the loaded snapshot
\* the call is noted in w.calls with its outcome
auto_start_call(w, tid, spawn_ok) ==
    LET w1 == restart_process_background(w, tid, spawn_ok)
    IN  [w1 EXCEPT !.calls = Append(w.calls, [tid |-> tid, out |-> w1.op.out])]

\* a sweep without its try/except: the first start that raises ends it
RECURSIVE auto_start_loop_unguarded(_, _, _, _)
auto_start_loop_unguarded(w, data, i, spawn) ==
    IF i > Len(data) THEN w
    ELSE IF data[i].v.last_run = TRUE
    THEN LET w1 == By(auto_start_call(w, data[i].k, spawn[data[i].k]), "auto")
         IN  IF w1.op.propagated THEN w1
             ELSE auto_start_loop_unguarded(w1, data, i + 1, spawn)
    ELSE auto_start_loop_unguarded(w, data, i + 1, spawn)

RECURSIVE auto_start_loop(_, _, _, _)
auto_start_loop(w, data, i, spawn) ==
    IF i > Len(data) THEN w
    ELSE IF data[i].v.last_run = TRUE
    THEN auto_start_loop(By(Swallow(auto_start_call(w, data[i].k, spawn[data[i].k])), "auto"),
                         data, i + 1, spawn)
    ELSE auto_start_loop(w, data, i + 1, spawn)

auto_start_last_run_apps(w, spawn) == auto_start_loop(w, load_ownership(w.file), 1, spawn)

(***************************************************************************)
(* Watchdog                                                                *)
(***************************************************************************)
_can_alert(w, tid) ==
    LET last == IF RegHas(w.rp, tid) THEN RegGet(w.rp, tid).last_alert ELSE 0
    IN  (w.now - last) >= ALERT_COOLDOWN_SEC

\* a stamp that would also take the time of the alert for the start time
_mark_alerted_restamps(w, tid) ==
    IF RegHas(w.rp, tid)
    THEN [w EXCEPT !.rp = RegSet(w.rp, tid, [RegGet(w.rp, tid) EXCEPT !.last_alert = w.now,
                                                                     !.started_at = w.now])]
    ELSE w

_mark_alerted(w, tid) ==
    IF RegHas(w.rp, tid)
    THEN [w EXCEPT !.rp = RegSet(w.rp, tid, [RegGet(w.rp, tid) EXCEPT !.last_alert = w.now])]
    ELSE w

\* an auto-restart that would be rate-limited like the notification
wd_restart_rate_limited(w, tid, spawn_ok) ==
    IF _can_alert(w, tid)
    THEN LET w1 == By(Swallow(restart_process_background(w, tid, spawn_ok)), "watchdog")
         IN  [w1 EXCEPT !.wd = [w1.wd EXCEPT !.starts = [@ EXCEPT ![tid] = @ + 1]]]
    ELSE w

\* the "auto-restart" block of watchdog_check: start inside try/except
wd_restart(w, tid, spawn_ok) ==
    LET w1 == By(Swallow(restart_process_background(w, tid, spawn_ok)), "watchdog")
    IN  [w1 EXCEPT !.wd = [w1.wd EXCEPT !.starts = [@ EXCEPT ![tid] = @ + 1]]]

\* history of a visit: this tick's log and the per-identifier record
Visit(w, tid, down, breach, alerted) ==
    LET h    == w.hist[tid]
        both == down /\ h.prev.down /\ (w.now - h.prev.at) < ALERT_COOLDOWN_SEC
        n    == (IF h.prev.alerted THEN 1 ELSE 0) + (IF alerted THEN 1 ELSE 0)
    IN  [w EXCEPT
            !.wd = [w.wd EXCEPT
                      !.seen = [@ EXCEPT ![tid] = IF down THEN "down" ELSE IF breach THEN "breach" ELSE "alive"],
                      !.alerted = [@ EXCEPT ![tid] = alerted],
                      !.pair = [@ EXCEPT ![tid] = IF both THEN n ELSE 0 - 1]],
            !.hist = [w.hist EXCEPT ![tid] =
                        [prev |-> [at |-> w.now, down |-> down, alerted |-> alerted],
                         down_at |-> IF down /\ alerted THEN w.now ELSE h.down_at,
                         res_at |-> IF ~down /\ alerted THEN w.now ELSE h.res_at]]]

\* the task waits in a send_message call
Suspend(w, pc, item, rest) ==
    [w EXCEPT !.wd = [w.wd EXCEPT !.pc = pc, !.cur = item.tid, !.owner = item.owner, !.rest = rest]]

\* the for loop of watchdog_check from the items left, up to the next await or the end
\* spawn[tid]: whether a spawn for tid succeeds; sample[tid]: what psutil reports
RECURSIVE wd_loop(_, _, _, _)
wd_loop(w, list, spawn, sample) ==
    IF list = <<>>
    THEN [w EXCEPT !.wd = [w.wd EXCEPT !.pc = "idle", !.cur = None, !.owner = NoUid, !.rest = <<>>]]
    ELSE
        LET item == Head(list)
            tid == item.tid
            is_running == RegHas(w.rp, tid) /\ poll_is_None(w.procs, RegGet(w.rp, tid).process)
        IN  IF ~is_running
            THEN IF _can_alert(w, tid)
                 THEN Suspend(Visit(w, tid, TRUE, FALSE, TRUE), "down_admin", item, Tail(list))
                 ELSE wd_loop(wd_restart(Visit(w, tid, TRUE, FALSE, FALSE), tid, spawn[tid]),
                              Tail(list), spawn, sample)
            ELSE IF sample[tid] = "error"
            THEN wd_loop(Visit(w, tid, FALSE, FALSE, FALSE), Tail(list), spawn, sample)
            ELSE IF sample[tid] = "high" /\ _can_alert(w, tid)
            THEN Suspend(Visit(w, tid, FALSE, TRUE, TRUE), "res_admin", item, Tail(list))
            ELSE wd_loop(Visit(w, tid, FALSE, sample[tid] = "high", FALSE), Tail(list), spawn, sample)

\* watch_list of watchdog_check, with the owner the loaded snapshot gives
watch_list(file) ==
    LET data == load_ownership(file)
        on == SelectSeq(data, LAMBDA it : it.v.last_run = TRUE)
    IN  [i \in 1..Len(on) |-> [tid |-> on[i].k, owner |-> on[i].v.owner]]

\* the identifiers of a list of watch items
Left(list) == {list[i].tid : i \in 1..Len(list)}
Watched(file) == Left(watch_list(file))

\* watchdog_check from its first line (history: an identifier the tick does not
\* watch has no previous visit any more)
watchdog_check(w, spawn, sample) ==
    LET list == watch_list(w.file)
        watched == Left(list)
    IN  IF ~ENABLE_ALERTS THEN w
        ELSE wd_loop([w EXCEPT !.wd = [IdleWd EXCEPT !.watch = watched],
                               !.hist = [t \in scope |-> IF t \in watched THEN w.hist[t]
                                                        ELSE [w.hist[t] EXCEPT !.prev = NoVisit]]],
                     list, spawn, sample)

\* a resumption without the try/except around the sends: a send that raises ends
\* the sweep
watchdog_resume_send_aborts(w, sent, spawn, sample) ==
    LET tid == w.wd.cur
        second == w.wd.owner # 0 /\ w.wd.owner # ADMIN_ID
        item == [tid |-> tid, owner |-> w.wd.owner]
    IN  IF ~sent
        THEN wd_loop(w, <<>>, spawn, sample)
        ELSE IF w.wd.pc = "down_admin" /\ second
        THEN Suspend(w, "down_owner", item, w.wd.rest)
        ELSE IF w.wd.pc \in {"down_admin", "down_owner"}
        THEN wd_loop(wd_restart(_mark_alerted(w, tid), tid, spawn[tid]), w.wd.rest, spawn, sample)
        ELSE IF w.wd.pc = "res_admin" /\ second
        THEN Suspend(w, "res_owner", item, w.wd.rest)
        ELSE wd_loop(_mark_alerted(w, tid), w.wd.rest, spawn, sample)

\* watchdog_check resumed when the pending send_message returns (sent) or raises
watchdog_resume(w, sent, spawn, sample) ==
    LET tid == w.wd.cur
        second == w.wd.owner # 0 /\ w.wd.owner # ADMIN_ID
        item == [tid |-> tid, owner |-> w.wd.owner]
    IN  IF w.wd.pc = "down_admin" /\ sent /\ second
        THEN Suspend(w, "down_owner", item, w.wd.rest)
        ELSE IF w.wd.pc \in {"down_admin", "down_owner"}
        THEN wd_loop(wd_restart(_mark_alerted(w, tid), tid, spawn[tid]), w.wd.rest, spawn, sample)
        ELSE IF w.wd.pc = "res_admin" /\ sent /\ second
        THEN Suspend(w, "res_owner", item, w.wd.rest)
        ELSE IF sent
        THEN wd_loop(_mark_alerted(w, tid), w.wd.rest, spawn, sample)
        ELSE wd_loop(w, w.wd.rest, spawn, sample)

(***************************************************************************)
(* Handlers.  The log files (their existence and content) are not part of  *)
(* the state: no lifecycle or watchdog decision reads them.                *)
(***************************************************************************)
Quiet(t) == IF t.pc = "idle" THEN IdleWd ELSE t

\* the state as a world, for a handler of the event loop
World ==
    [file |-> OWNERSHIP_FILE, rp |-> running_processes, procs |-> procs, fs |-> fs,
     now |-> now, op |-> NoOp, full |-> FALSE, wd |-> Quiet(wd), hist |-> hist,
     ud |-> user_data, calls |-> <<>>]

\* the state as a world, for the watchdog task
WdWorld == [World EXCEPT !.wd = wd]

Apply(w) ==
    /\ ~w.full
    /\ OWNERSHIP_FILE' = w.file
    /\ running_processes' = w.rp
    /\ procs' = Collect(w.procs, w.rp, observe.groups)
    /\ fs' = w.fs
    /\ wd' = IF observe.alerts THEN w.wd ELSE [w.wd EXCEPT !.pair = IdleWd.pair]
    /\ hist' = IF observe.alerts THEN w.hist ELSE hist
    /\ lastOp' = w.op
    /\ user_data' = w.ud
    /\ sweep' = w.calls
    /\ UNCHANGED <<now, advances, scope, observe, ENABLE_ALERTS, call, store_io>>

\* a step of the event loop, once the host serves
Serve(w) == phase = "serving" /\ Apply(w) /\ UNCHANGED <<phase, next_tick>>

\* shutil.rmtree(work_dir, ignore_errors=True)
rmtree(f, dir) ==
    [paths |-> {p \in f.paths : ~StartsWith(p, dir \o <<SEP>>)}, starts |-> f.starts \ {dir}]

\* uid != ADMIN_ID and uid != owner: "Not yours"
Allowed(file, uid, tid) == uid = ADMIN_ID \/ uid = get_owner(file, tid)

\* receive_file: the uploaded script is stored and its record (re)written
receive_file(w, uid, fname, key) ==
    LET tid == UserFileId(uid, fname)
        path == PathJoin(PathJoin(UPLOAD_DIR, UidStr(uid)), fname)
    IN  [w EXCEPT
            !.fs = [w.fs EXCEPT !.paths = @ \cup {path}],
            !.file = save_ownership_record(w.file, tid,
                        [owner |-> uid, type |-> "file", key |-> key, last_run |-> FALSE, entry |-> fname]),
            !.ud = [target_id |-> tid, state |-> "WAIT_EXTRAS"]]

\* receive_git_url: the old clone is removed, the repository cloned, the placeholder recorded
receive_git_url(w, uid, cloned, content, key) ==
    LET repo_name == RepoName(uid)
        repo_path == PathJoin(UPLOAD_DIR, repo_name)
        gone == rmtree(w.fs, repo_path)
        fs1 == [paths |-> gone.paths \cup {PathJoin(repo_path, f) : f \in content.files},
                starts |-> IF content.start THEN gone.starts \cup {repo_path} ELSE gone.starts]
    IN  IF ~cloned THEN [w EXCEPT !.fs = gone, !.ud = [@ EXCEPT !.state = "END"]]
        ELSE [w EXCEPT
                !.fs = fs1,
                !.file = save_ownership_record(w.file, RepoId(repo_name, PLACEHOLDER),
                            [owner |-> uid, type |-> "repo", key |-> key, last_run |-> FALSE, entry |-> None]),
                !.ud = [target_id |-> RepoId(repo_name, PLACEHOLDER), state |-> "WAIT_GIT_EXTRAS"]]

\* execute_logic: start is called bare, an error of it leaves the handler
execute_logic(w, spawn_ok) ==
    LET w1 == By(restart_process_background(w, w.ud.target_id, spawn_ok), "run")
    IN  [w1 EXCEPT !.ud = [@ EXCEPT !.state = "END"]]

\* select_git_file: the placeholder record moves to the chosen file's identifier
select_git_file(w, uid, repo_name, old_tid, filename, key, spawn_ok) ==
    LET new_tid == RepoId(repo_name, filename)
        file1 == rename_record(w.file, uid, old_tid, new_tid, filename, key)
    IN  By(execute_logic([w EXCEPT !.file = file1, !.ud = [@ EXCEPT !.target_id = new_tid]],
                         spawn_ok), "select")

\* manage_callback, "del__": stop, delete the record, remove the files
manage_delete(w, tid) ==
    LET w1 == By(stop_process(w, tid), "delete")
        paths == paths_of[tid]
        fs1 == IF repo_ids[tid] THEN rmtree(w1.fs, paths.work_dir)
               ELSE IF user_file_ids[tid]
               THEN [w1.fs EXCEPT !.paths = @ \ {PathJoin(paths.work_dir, paths.script)}]
               ELSE w1.fs
    IN  [w1 EXCEPT !.file = delete_ownership(w1.file, tid), !.fs = fs1]

\* owner_callback, "own__stopall": for tid in list(running_processes.keys()): stop_process(tid)
RECURSIVE stop_all(_, _)
stop_all(w, keys) ==
    IF keys = {} THEN w
    ELSE LET tid == CHOOSE t \in keys : TRUE
         IN  stop_all(By(stop_process(w, tid), "stopall"), keys \ {tid})

Samples == {"error", "low", "high"}

\* inputs of a sweep over the identifiers T: which spawns succeed, what psutil reports
SpawnInputs(T) == {[t \in T |-> t \in ok] : ok \in SUBSET T}
SampleInputs(T) == [T -> Samples]

ReceiveFile ==
    /\ U \in scope
    /\ \E key \in Keys : Serve(receive_file(World, UPLOADER, JOB_PY, key))

ReceiveGitUrl ==
    /\ P \in scope
    /\ \E cloned \in BOOLEAN, content \in RepoContents, key \in Keys :
          Serve(receive_git_url(World, UPLOADER, cloned, content, key))

\* show_file_selection lists the runnable files of the clone; one is chosen
SelectGitFile ==
    /\ user_data.state = "WAIT_GIT_EXTRAS"
    /\ \E key \in Keys, spawn_ok \in BOOLEAN :
        \E f \in {g \in {MAIN_PY} : RepoId(RepoName(UPLOADER), g) \in scope
                                    /\ Exists(fs, PathJoin(PathJoin(UPLOAD_DIR, RepoName(UPLOADER)), g))} :
          Serve(select_git_file(World, UPLOADER, RepoName(UPLOADER), user_data.target_id, f, key, spawn_ok))

\* receive_extras, "Run Now"
ExecuteLogic ==
    /\ user_data.state = "WAIT_EXTRAS"
    /\ \E spawn_ok \in BOOLEAN : Serve(execute_logic(World, spawn_ok))

ManageStop ==
    \E uid \in Uids, tid \in scope :
        Serve(IF Allowed(OWNERSHIP_FILE, uid, tid) THEN By(stop_process(World, tid), "stop") ELSE World)

ManageRerun ==
    \E uid \in Uids, tid \in scope, spawn_ok \in BOOLEAN :
        Serve(IF Allowed(OWNERSHIP_FILE, uid, tid)
              THEN By(restart_process_background(World, tid, spawn_ok), "rerun")
              ELSE World)

ManageDelete ==
    \E uid \in Uids, tid \in scope :
        Serve(IF Allowed(OWNERSHIP_FILE, uid, tid) THEN manage_delete(World, tid) ELSE World)

OwnerStopAll == Serve(stop_all(World, {e.tid : e \in running_processes}))

OwnerRestartAll ==
    \E spawn \in SpawnInputs(scope) : Serve(auto_start_last_run_apps(World, spawn))

\* a watchdog_job that __main__ would schedule, and a sweep it would run, whatever
\* the switch says
WatchdogTick_whatever_the_switch ==
    /\ wd.pc = "idle"
    /\ phase = "serving"
    /\ now >= next_tick
    /\ \E spawn \in SpawnInputs(Watched(OWNERSHIP_FILE)),
          sample \in SampleInputs(Watched(OWNERSHIP_FILE)) :
          Apply(wd_loop([WdWorld EXCEPT !.wd = [IdleWd EXCEPT !.watch = Watched(OWNERSHIP_FILE)]],
                        watch_list(OWNERSHIP_FILE), spawn, sample))
    /\ next_tick' = now + HEALTHCHECK_INTERVAL_SEC
    /\ UNCHANGED phase

\* watchdog_job fires (run_repeating, every HEALTHCHECK_INTERVAL_SEC; one instance
\* at a time); __main__ schedules it only where the switch is on
WatchdogTick ==
    /\ ENABLE_ALERTS
    /\ wd.pc = "idle"
    /\ phase = "serving"
    /\ now >= next_tick
    /\ \E spawn \in SpawnInputs(Watched(OWNERSHIP_FILE)),
          sample \in SampleInputs(Watched(OWNERSHIP_FILE)) :
          Apply(watchdog_check(WdWorld, spawn, sample))
    /\ next_tick' = now + HEALTHCHECK_INTERVAL_SEC
    /\ UNCHANGED phase

\* the send_message the watchdog waits in returns or raises
WatchdogSent ==
    /\ wd.pc # "idle"
    /\ \E sent \in BOOLEAN, spawn \in SpawnInputs({wd.cur} \cup Left(wd.rest)),
          sample \in SampleInputs(Left(wd.rest)) :
          Serve(watchdog_resume(WdWorld, sent, spawn, sample))

\* a child process group exits, by itself or after SIGTERM
ProcExit ==
    \E pid \in Pids :
        /\ phase = "serving"
        /\ procs[pid].alive
        /\ procs' = Collect([procs EXCEPT ![pid] = [@ EXCEPT !.alive = FALSE, !.termed = FALSE]],
                            running_processes, observe.groups)
        /\ lastOp' = NoOp
        /\ wd' = Quiet(wd)
        /\ sweep' = <<>>
        /\ UNCHANGED <<OWNERSHIP_FILE, running_processes, fs, now, advances, hist, next_tick, user_data, phase, scope, observe, ENABLE_ALERTS, call, store_io>>

\* time passes: one watchdog interval, or (where the notification history is
\* recorded) a whole alert cooldown
Delays == IF observe.alerts THEN {HEALTHCHECK_INTERVAL_SEC, ALERT_COOLDOWN_SEC}
          ELSE {HEALTHCHECK_INTERVAL_SEC}

AdvanceTime ==
    \E d \in Delays :
        /\ phase = "serving"
        /\ advances < MaxAdvances
        /\ now' = now + d
        /\ advances' = advances + 1
        /\ lastOp' = NoOp
        /\ wd' = Quiet(wd)
        /\ sweep' = <<>>
        /\ UNCHANGED <<OWNERSHIP_FILE, running_processes, procs, fs, hist, next_tick, user_data, phase, scope, observe, ENABLE_ALERTS, call, store_io>>

\* __main__: auto_start_last_run_apps() before the handlers and the watchdog run
BootAutoStart ==
    /\ phase = "boot"
    /\ \E spawn \in SpawnInputs(scope) : Apply(auto_start_last_run_apps(World, spawn))
    /\ phase' = "serving"
    /\ UNCHANGED next_tick

\* the identifiers of one behaviour: an uploaded script, or a cloned repository
Scopes == {{U}, {P}}

EmptyWorld ==
    [file |-> [exists |-> FALSE, valid |-> TRUE, dict |-> TRUE, data |-> <<>>], rp |-> {},
     procs |-> [p \in Pids |-> FreeProc], fs |-> [paths |-> {}, starts |-> {}],
     now |-> BootTime, op |-> NoOp, full |-> FALSE, wd |-> IdleWd,
     hist |-> [t \in TIDs |-> NoHist], ud |-> NoUserData, calls |-> <<>>]

FirstKey == CHOOSE k \in Keys : \A j \in Keys : k <= j

\* what an earlier run of the host can have left on disk for the identifiers of sc:
\* nothing, or a target that was running when the host went down
Persisted(sc) ==
    LET flagged(w, tid) == [w EXCEPT !.file = set_last_run(w.file, tid, TRUE)]
        uploaded == receive_file(EmptyWorld, UPLOADER, JOB_PY, FirstKey)
        cloned(c) == receive_git_url(EmptyWorld, UPLOADER, TRUE, c, FirstKey)
        started(w, tid) == restart_process_background(w, tid, TRUE)
        selected(w) == select_git_file(w, UPLOADER, RepoName(UPLOADER), P, MAIN_PY, FirstKey, TRUE)
    IN  {EmptyWorld}
        \cup (IF U \in sc THEN {flagged(uploaded, U)} ELSE {})
        \cup (IF P \in sc
              THEN {[EmptyWorld EXCEPT !.file = started(cloned(c), P).file, !.fs = cloned(c).fs] :
                        c \in {d \in RepoContents : started(cloned(d), P).op.out = "spawned"}}
              ELSE {})
        \cup (IF R \in sc
              THEN {[EmptyWorld EXCEPT !.file = selected(cloned(c)).file, !.fs = cloned(c).fs] :
                        c \in {d \in RepoContents : MAIN_PY \in d.files}}
              ELSE {})

\* the host comes up over what is on disk: no registry, no conversation, no tick yet
BootOver(worlds) ==
    /\ \E w \in worlds : OWNERSHIP_FILE = w.file /\ fs = w.fs
    /\ running_processes = {}
    /\ procs = [p \in Pids |-> FreeProc]
    /\ now = BootTime
    /\ advances = 0
    /\ wd = IdleWd
    /\ hist = [t \in scope |-> NoHist]
    /\ lastOp = NoOp
    /\ user_data = NoUserData
    /\ next_tick = BootTime
    /\ phase = "boot"
    /\ sweep = <<>>

Boot ==
    /\ scope \in Scopes
    /\ BootOver(Persisted(scope))
    /\ ENABLE_ALERTS = TRUE
    /\ call = NoCall
    /\ store_io = NoStoreIo

\* nothing of the host runs: the state besides call and store_io stays as it is
HostIdle ==
    /\ scope = {}
    /\ BootOver({EmptyWorld})
    /\ ENABLE_ALERTS = TRUE
    /\ observe = [groups |-> FALSE, alerts |-> FALSE]

HostUnchanged ==
    UNCHANGED <<running_processes, procs, fs, now, advances, wd, hist, lastOp,
                next_tick, user_data, phase, scope, observe, sweep, ENABLE_ALERTS>>

Init == Boot /\ observe = [groups |-> FALSE, alerts |-> FALSE]

Next ==
    \/ BootAutoStart
    \/ ReceiveFile
    \/ ReceiveGitUrl
    \/ ExecuteLogic
    \/ ManageStop
    \/ ManageRerun
    \/ ManageDelete
    \/ OwnerStopAll
    \/ OwnerRestartAll
    \/ WatchdogTick
    \/ WatchdogSent
    \/ ProcExit
    \/ AdvanceTime

\* the supervision engine
Spec == Init /\ [][Next]_vars

\* the same, with the process groups the registry has dropped kept in view
InitGroups == Boot /\ observe = [groups |-> TRUE, alerts |-> FALSE]
SpecGroups == InitGroups /\ [][Next]_vars

\* the same, with the notification history recorded
InitAlerts == Boot /\ observe = [groups |-> FALSE, alerts |-> TRUE]
SpecAlerts == InitAlerts /\ [][Next]_vars

\* a watchdog_job is due: this is when WatchdogTick is enabled
TickDue == ENABLE_ALERTS /\ wd.pc = "idle" /\ phase = "serving" /\ now >= next_tick

\* the supervision engine where time passes and the event loop runs what it has to
\* run. A job that is due is run (weak fairness of WatchdogTick: a tick is not due for
\* ever) and a send_message returns or times out (weak fairness of WatchdogSent: the
\* task does not wait for ever); both are written with the predicates that enable
\* the actions.
SpecLive ==
    /\ Init
    /\ [][Next]_vars
    /\ WF_vars(AdvanceTime)
    /\ []<>(~TickDue)
    /\ []<>(wd.pc = "idle")

\* the host with ENABLE_ALERTS=1 in its environment (the default), or with another
\* value
InitSwitch ==
    /\ scope \in Scopes
    /\ BootOver(Persisted(scope))
    /\ ENABLE_ALERTS \in BOOLEAN
    /\ observe = [groups |-> FALSE, alerts |-> FALSE]
    /\ call = NoCall
    /\ store_io = NoStoreIo

\* the supervision engine, with the switch either way
SpecSwitch == InitSwitch /\ [][Next]_vars

(***************************************************************************)
(* Auto-start over two records                                             *)
(***************************************************************************)
\* an uploaded script and a cloned repository on disk, recorded in either order,
\* each flagged as running or not when the host went down
PersistedPair ==
    LET uploaded(w) == receive_file(w, UPLOADER, JOB_PY, FirstKey)
        cloned(w, c) == receive_git_url(w, UPLOADER, TRUE, c, FirstKey)
        flagged(w, a, b) ==
            [EmptyWorld EXCEPT !.file = set_last_run(set_last_run(w.file, U, a), P, b), !.fs = w.fs]
    IN  {flagged(cloned(uploaded(EmptyWorld), c), a, b) : c \in RepoContents, a \in BOOLEAN, b \in BOOLEAN}
        \cup {flagged(uploaded(cloned(EmptyWorld, c)), a, b) : c \in RepoContents, a \in BOOLEAN, b \in BOOLEAN}

\* the host process ends and __main__ runs again: the registry is a fresh dict
HostRestart ==
    /\ phase = "serving"
    /\ phase' = "boot"
    /\ running_processes' = {}
    /\ procs' = Collect(procs, {}, observe.groups)
    /\ wd' = IdleWd
    /\ user_data' = NoUserData
    /\ lastOp' = NoOp
    /\ sweep' = <<>>
    /\ next_tick' = now
    /\ UNCHANGED <<OWNERSHIP_FILE, fs, now, advances, hist, scope, observe, ENABLE_ALERTS, call, store_io>>

\* a status that would tell an identifier without a record from a wrong key
status_reveals_absent(file, rp, ps, script, key) ==
    IF script = <<>> THEN [body |-> <<"Specify script">>, code |-> 400]
    ELSE IF ~DictHas(load_ownership(file), script)
    THEN [body |-> <<"stopped", script>>, code |-> 404]
    ELSE IF key # get_app_key(file, script)
    THEN [body |-> <<"Forbidden">>, code |-> 403]
    ELSE IF RegHas(rp, script) /\ poll_is_None(ps, RegGet(rp, script).process)
    THEN [body |-> <<"running", script>>, code |-> 200]
    ELSE [body |-> <<"stopped", script>>, code |-> 404]

\* GET /status?script=..&key=.. (a missing parameter is ""; NoKey stands for "" and
\* for the None that get_app_key returns where there is no record)
status(file, rp, ps, script, key) ==
    LET real_key == get_app_key(file, script)
    IN  IF script = <<>> THEN [body |-> <<"Specify script">>, code |-> 400]
        ELSE IF real_key = NoKey \/ key # real_key
        THEN [body |-> <<"Forbidden">>, code |-> 403]
        ELSE IF RegHas(rp, script) /\ poll_is_None(ps, RegGet(rp, script).process)
        THEN [body |-> <<"running", script>>, code |-> 200]
        ELSE [body |-> <<"stopped", script>>, code |-> 404]

\* the HTTP thread serves a status request, at any moment
HttpStatus ==
    \E script \in {<<>>, U, P, R}, key \in {NoKey} \cup 1..(NumKeys + 1) :
        /\ call' = [fn |-> "status", args |-> <<script, key>>,
                    result |-> status(OWNERSHIP_FILE, running_processes, procs, script, key)]
        /\ UNCHANGED <<OWNERSHIP_FILE, store_io>>
        /\ HostUnchanged

InitAuto ==
    /\ scope = {U, P}
    /\ BootOver(PersistedPair)
    /\ ENABLE_ALERTS = TRUE
    /\ observe = [groups |-> FALSE, alerts |-> FALSE]
    /\ call = NoCall
    /\ store_io = NoStoreIo

NextAuto ==
    \/ BootAutoStart
    \/ ManageStop
    \/ ManageRerun
    \/ ProcExit
    \/ HostRestart
    \/ HttpStatus

\* the host with two targets, over its restarts
SpecAuto == InitAuto /\ [][NextAuto]_vars

(***************************************************************************)
(* The watchdog over two records                                           *)
(***************************************************************************)
NextSweep ==
    \/ BootAutoStart
    \/ WatchdogTick
    \/ WatchdogSent
    \/ ManageStop
    \/ ProcExit
    \/ AdvanceTime

\* the sweeps of the watchdog over two targets, while their owner stops them and their
\* processes exit
SpecSweep == InitAuto /\ [][NextSweep]_vars

(***************************************************************************)
(* The identifier scheme, called on its own                                *)
(***************************************************************************)
\* length of the longest identifier
MaxIdLen == 4

\* the branch of resolve_paths that tid takes
classify(tid) ==
    IF is_user_file_id(tid) THEN "user_file"
    ELSE IF is_repo_id(tid) THEN "repo_file"
    ELSE "legacy"

Classify ==
    /\ call.fn = "none"
    /\ call' = [fn |-> "classify", args |-> call.args,
                result |-> [user_file |-> is_user_file_id(call.args[1]),
                            repo |-> is_repo_id(call.args[1]),
                            kind |-> classify(call.args[1]),
                            paths |-> resolve_paths(call.args[1])]]
    /\ UNCHANGED <<OWNERSHIP_FILE, store_io>>
    /\ HostUnchanged

\* the identifiers: every string of up to MaxIdLen of the characters u, 1, a and |
InitIds ==
    LET chars == {"u", "1", "a", "|"}
    IN  /\ HostIdle
        /\ \E tid \in UNION {[1..n -> chars] : n \in 0..MaxIdLen} :
               call = [fn |-> "none", args |-> <<tid>>, result |-> <<>>]
        /\ store_io = NoStoreIo

\* the identifier scheme over every identifier
SpecIds == InitIds /\ [][Classify]_vars

(***************************************************************************)
(* ownership.json under its writers and its reader                         *)
(***************************************************************************)
\* number of store mutations begun in one behaviour
MaxWrites == 2

\* a _write_json that would open and write the path itself
_write_json_step_in_place(pc, d, obj) ==
    IF pc = "open" THEN [d EXCEPT !.file = [exists |-> TRUE, valid |-> FALSE, dict |-> TRUE, data |-> <<>>]]
    ELSE IF pc = "dump" THEN [d EXCEPT !.file = _write_json(obj)]
    ELSE d

\* _write_json(OWNERSHIP_FILE, obj) statement by statement, on d = [file, tmp]:
\* "open": open(tmp, "w"); "dump": json.dump(obj, f) and close; "replace": os.replace
_write_json_step(pc, d, obj) ==
    IF pc = "open" THEN [d EXCEPT !.tmp = [exists |-> TRUE, valid |-> FALSE, dict |-> TRUE, data |-> <<>>]]
    ELSE IF pc = "dump" THEN [d EXCEPT !.tmp = _write_json(obj)]
    ELSE [file |-> d.tmp, tmp |-> NoStoreIo.tmp]

\* a rename done as two writes: the new record saved, then the old one deleted
rename_writes_two(file, m) ==
    LET data == load_ownership(file)
        added == save_ownership_record(file, m.new_tid, [DictGet(data, m.tid) EXCEPT !.entry = MAIN_PY])
    IN  IF DictHas(data, m.tid) THEN <<added, delete_ownership(added, m.tid)>>
        ELSE <<rename_record(file, UPLOADER, m.tid, m.new_tid, MAIN_PY, m.key)>>

\* select_git_file: one _write_json for the move
rename_writes(file, m) == <<rename_record(file, UPLOADER, m.tid, m.new_tid, MAIN_PY, m.key)>>

\* the contents a mutation writes, in order, when it finds the store as file
store_writes(file, m) ==
    LET has == DictHas(load_ownership(file), m.tid)
    IN  CASE m.op = "create" ->
                <<save_ownership_record(file, m.tid,
                     [owner |-> UPLOADER, type |-> "repo", key |-> m.key, last_run |-> FALSE, entry |-> None])>>
          [] m.op = "rename" -> rename_writes(file, m)
          [] m.op = "set_last_run" -> IF has THEN <<set_last_run(file, m.tid, m.flag)>> ELSE <<>>
          [] m.op = "set_entry" -> IF has THEN <<set_entry(file, m.tid, MAIN_PY)>> ELSE <<>>
          [] m.op = "delete" -> IF has THEN <<delete_ownership(file, m.tid)>> ELSE <<>>

\* the mutations of the handlers, for a repository of the uploader
Mutations ==
    {[NoMutation EXCEPT !.op = "create", !.tid = P, !.key = k] : k \in 1..(NumKeys + 1)}
    \cup {[NoMutation EXCEPT !.op = "rename", !.tid = P, !.new_tid = R, !.key = k] : k \in 1..(NumKeys + 1)}
    \cup {[NoMutation EXCEPT !.op = "set_last_run", !.tid = t, !.flag = b] : t \in {P, R}, b \in BOOLEAN}
    \cup {[NoMutation EXCEPT !.op = "set_entry", !.tid = t] : t \in {P, R}}
    \cup {[NoMutation EXCEPT !.op = "delete", !.tid = t] : t \in {P, R}}

\* a handler that would await between its load_ownership() and its _write_json()
loop_yields_in_between(txns) == Len(txns) < 2

\* the handlers run on one event loop and none awaits between its load_ownership()
\* and its _write_json(): a mutation begins only when none is under way
loop_is_free(txns) == txns = <<>>

\* a handler reads the store and decides what to write
StoreBegin ==
    \E m \in Mutations :
        LET plan == store_writes(OWNERSHIP_FILE, m)
        IN  /\ loop_is_free(store_io.txns)
            /\ store_io.begun < MaxWrites
            /\ store_io' =
                  [store_io EXCEPT
                     !.txns = IF plan = <<>> THEN @
                              ELSE Append(@, [m |-> m, base |-> OWNERSHIP_FILE, plan |-> plan, pc |-> "open"]),
                     !.begun = @ + 1,
                     !.last = IF plan = <<>>
                              THEN [m |-> m, outcome |-> "noop", base |-> OWNERSHIP_FILE, wrote |-> <<>>]
                              ELSE NoStoreIo.last,
                     !.seen = NoStoreIo.seen]
            /\ UNCHANGED <<OWNERSHIP_FILE, call>>
            /\ HostUnchanged

\* the next statement of _write_json runs, or raises
StoreStep ==
    \E i \in 1..Len(store_io.txns), ok \in BOOLEAN :
        LET t == store_io.txns[i]
            d == _write_json_step(t.pc, [file |-> OWNERSHIP_FILE, tmp |-> store_io.tmp], t.plan[1].data)
            others == SubSeq(store_io.txns, 1, i - 1) \o SubSeq(store_io.txns, i + 1, Len(store_io.txns))
            ended(outcome) == [m |-> t.m, outcome |-> outcome, base |-> t.base, wrote |-> t.plan[1]]
        IN  /\ OWNERSHIP_FILE' = IF ok THEN d.file ELSE OWNERSHIP_FILE
            /\ store_io' =
                  IF ~ok
                  THEN [store_io EXCEPT !.txns = others, !.last = ended("failed")]
                  ELSE IF t.pc = "open"
                  THEN [store_io EXCEPT !.tmp = d.tmp, !.txns[i].pc = "dump"]
                  ELSE IF t.pc = "dump"
                  THEN [store_io EXCEPT !.tmp = d.tmp, !.txns[i].pc = "replace"]
                  ELSE IF Len(t.plan) > 1
                  THEN [store_io EXCEPT !.tmp = d.tmp, !.txns[i].pc = "open", !.txns[i].plan = Tail(@)]
                  ELSE [store_io EXCEPT !.tmp = d.tmp, !.txns = others, !.last = ended("done")]
            /\ UNCHANGED call
            /\ HostUnchanged

\* the HTTP thread reads the store (get_app_key, get_owner), at any moment
HttpRead ==
    LET during == IF store_io.txns # <<>> THEN [m |-> store_io.txns[1].m, base |-> store_io.txns[1].base]
                  ELSE [m |-> store_io.last.m, base |-> store_io.last.base]
    IN  /\ store_io.begun > 0
        /\ store_io' = [store_io EXCEPT
                           !.seen = [m |-> during.m, base |-> during.base,
                                     data |-> load_ownership(OWNERSHIP_FILE)]]
        /\ UNCHANGED <<OWNERSHIP_FILE, call>>
        /\ HostUnchanged

\* ownership.json as the handlers can have left it: missing, or with the placeholder
\* record of a clone, the record of a selected file, or both (a second clone)
StoredFiles ==
    LET cloned(w, k) == receive_git_url(w, UPLOADER, TRUE, [files |-> {MAIN_PY}, start |-> FALSE], k)
        renamed(w) == [w EXCEPT !.file = rename_record(w.file, UPLOADER, P, R, MAIN_PY, FirstKey)]
        flagged(w) == [w EXCEPT !.file = set_last_run(w.file, R, TRUE)]
        first == cloned(EmptyWorld, FirstKey)
    IN  {EmptyWorld, first, renamed(first), flagged(renamed(first)),
         cloned(flagged(renamed(first)), FirstKey + 1)}

InitStore ==
    /\ scope = {}
    /\ BootOver(StoredFiles)
    /\ ENABLE_ALERTS = TRUE
    /\ observe = [groups |-> FALSE, alerts |-> FALSE]
    /\ call = NoCall
    /\ store_io = NoStoreIo

NextStore ==
    \/ StoreBegin
    \/ StoreStep
    \/ HttpRead

\* the store file, its writers on the event loop and the reader of the HTTP thread
SpecStore == InitStore /\ [][NextStore]_vars

(***************************************************************************)
(* The reads of the store over a file that is missing or damaged           *)
(***************************************************************************)
\* load_ownership(), get_owner(tid), get_app_key(tid) or get_entry(tid) is called
StoreRead ==
    LET fn == call.args[1]
        tid == call.args[2]
        value == CASE fn = "get_owner" -> <<get_owner(OWNERSHIP_FILE, tid)>>
                   [] fn = "get_app_key" -> <<get_app_key(OWNERSHIP_FILE, tid)>>
                   [] fn = "get_entry" -> <<get_entry(OWNERSHIP_FILE, tid)>>
                   [] OTHER -> IF not_a_dict(OWNERSHIP_FILE) THEN <<"not a dict">>
                               ELSE load_ownership(OWNERSHIP_FILE)
        raised == IF fn = "load_ownership" THEN FALSE ELSE not_a_dict(OWNERSHIP_FILE)
    IN  /\ call.fn = "none"
        /\ call' = [fn |-> fn, args |-> call.args,
                    result |-> [raised |-> raised, value |-> IF raised THEN <<>> ELSE value]]
        /\ UNCHANGED <<OWNERSHIP_FILE, store_io>>
        /\ HostUnchanged

\* ownership.json missing, unreadable or not JSON (open or json.load raises), holding
\* JSON that is no object, or as the handlers left it
InitRead ==
    LET damaged == {[exists |-> FALSE, valid |-> FALSE, dict |-> FALSE, data |-> <<>>],
                    [exists |-> TRUE, valid |-> FALSE, dict |-> FALSE, data |-> <<>>],
                    [exists |-> TRUE, valid |-> TRUE, dict |-> FALSE, data |-> <<>>]}
    IN  /\ scope = {}
        /\ BootOver({[EmptyWorld EXCEPT !.file = f] : f \in damaged \cup {w.file : w \in StoredFiles}})
        /\ ENABLE_ALERTS = TRUE
        /\ observe = [groups |-> FALSE, alerts |-> FALSE]
        /\ \E fn \in {"load_ownership", "get_owner", "get_app_key", "get_entry"}, tid \in TIDs :
               call = [fn |-> "none", args |-> <<fn, tid>>, result |-> <<>>]
        /\ store_io = NoStoreIo

\* the reads of the store, over every such file
SpecRead == InitRead /\ [][StoreRead]_vars

(***************************************************************************)
(* The log file of an identifier                                           *)
(***************************************************************************)
\* length of the longest file name
MaxNameLen == 3

\* restart_process_background, clear_log or tail_log derives the log path of two
\* identifiers
LogPath ==
    /\ call.fn = "none"
    /\ call' = [fn |-> "log_path", args |-> call.args,
                result |-> <<log_path_of(call.args[1]), log_path_of(call.args[2])>>]
    /\ UNCHANGED <<OWNERSHIP_FILE, store_io>>
    /\ HostUnchanged

\* two identifiers of one kind: uploads of the uploader (u1|name), files of a clone
\* of theirs (r_u1|name, the name a path relative to the clone) or legacy names
InitLogs ==
    LET names == UNION {[1..n -> {"a", "_", "|", SEP}] : n \in 1..MaxNameLen}
        kinds == {"user_file", "repo_file", "legacy"}
        id(kind, name) == IF kind = "user_file" THEN UserFileId(UPLOADER, name)
                          ELSE IF kind = "repo_file" THEN RepoId(RepoName(UPLOADER), name)
                          ELSE name
    IN  /\ HostIdle
        /\ \E kind \in kinds, name \in names, other \in names :
               /\ kind = "legacy" => ~Contains(name, "|") /\ ~Contains(other, "|")
               /\ call = [fn |-> "none", args |-> <<id(kind, name), id(kind, other)>>, result |-> <<>>]
        /\ store_io = NoStoreIo

\* the log paths of every such pair
SpecLogs == InitLogs /\ [][LogPath]_vars

(***************************************************************************)
(* tail_log                                                                *)
(***************************************************************************)
\* lines of the longest log, and the largest number of lines asked for
MaxLines == 801
MaxRequested == 900

TAIL_FLOOR == 50
TAIL_CEILING == 800

tail_count_unfloored(lines) == IF lines < TAIL_CEILING THEN lines ELSE TAIL_CEILING

\* max(50, min(lines, 800))
tail_count(lines) ==
    LET least == IF lines < TAIL_CEILING THEN lines ELSE TAIL_CEILING
    IN  IF TAIL_FLOOR > least THEN TAIL_FLOOR ELSE least

\* log: [exists, data], data the lines f.read().splitlines() gives. data[start:]
\* counts a negative start from the end; "\n".join puts a line feed between two lines
tail_log(log, lines) ==
    LET all == log.data
        start == 0 - tail_count(lines)
        from == IF start < 0 THEN (IF Len(all) + start > 0 THEN Len(all) + start ELSE 0)
                ELSE (IF start < Len(all) THEN start ELSE Len(all))
        data == SubSeq(all, from + 1, Len(all))
        joined == [i \in 1..(2 * Len(data) - 1) |-> IF i % 2 = 1 THEN data[(i + 1) \div 2] ELSE "\n"]
    IN  IF ~log.exists THEN "No logs."
        ELSE IF data # <<>> THEN joined ELSE "(empty)"

TailLog ==
    /\ call.fn = "none"
    /\ call' = [fn |-> "tail_log", args |-> call.args,
                result |-> tail_log(call.args[1], call.args[2])]
    /\ UNCHANGED <<OWNERSHIP_FILE, store_io>>
    /\ HostUnchanged

\* a log of L lines, line i holding i, or no log file; any number of lines asked for
InitTail ==
    LET lengths == {0, 1, 2, 49, 50, 51, 200, 799, 800, MaxLines}
        requested == {-1, 0, 1, 10, 49, 50, 51, 200, 799, 800, 801, MaxRequested}
        logs == {[exists |-> TRUE, data |-> [i \in 1..L |-> i]] : L \in lengths}
                    \cup {[exists |-> FALSE, data |-> <<>>]}
    IN  /\ HostIdle
        /\ \E log \in logs, lines \in requested :
               call = [fn |-> "none", args |-> <<log, lines>>, result |-> <<>>]
        /\ store_io = NoStoreIo

SpecTail == InitTail /\ [][TailLog]_vars

(***************************************************************************)
(* within_dir, called on its own                                           *)
(***************************************************************************)
\* number of components of the longest candidate path
MaxSegs == 3

\* s.split(c)
RECURSIVE SplitAll(_, _)
SplitAll(s, c) ==
    IF ~Contains(s, c) THEN <<s>>
    ELSE <<Split1(s, c)[1]>> \o SplitAll(Split1(s, c)[2], c)

\* c.join(parts)
RECURSIVE Join(_, _)
Join(parts, c) ==
    IF parts = <<>> THEN <<>>
    ELSE IF Len(parts) = 1 THEN parts[1]
    ELSE parts[1] \o <<c>> \o Join(Tail(parts), c)

\* the loop of posixpath.normpath over the components, new_comps so far
RECURSIVE norm_comps(_, _, _)
norm_comps(comps, new_comps, initial_slashes) ==
    IF comps = <<>> THEN new_comps
    ELSE LET comp == Head(comps)
         IN  IF comp = <<>> \/ comp = <<".">>
             THEN norm_comps(Tail(comps), new_comps, initial_slashes)
             ELSE IF \/ comp # <<".", ".">>
                     \/ (initial_slashes = 0 /\ new_comps = <<>>)
                     \/ (new_comps # <<>> /\ new_comps[Len(new_comps)] = <<".", ".">>)
             THEN norm_comps(Tail(comps), Append(new_comps, comp), initial_slashes)
             ELSE IF new_comps # <<>>
             THEN norm_comps(Tail(comps), SubSeq(new_comps, 1, Len(new_comps) - 1), initial_slashes)
             ELSE norm_comps(Tail(comps), new_comps, initial_slashes)

\* os.path.abspath(p) of an absolute p: posixpath.normpath(p)
abspath(p) ==
    LET initial_slashes ==
            IF ~StartsWith(p, <<SEP>>) THEN 0
            ELSE IF StartsWith(p, <<SEP, SEP>>) /\ ~StartsWith(p, <<SEP, SEP, SEP>>) THEN 2
            ELSE 1
        path == Join(norm_comps(SplitAll(p, SEP), <<>>, initial_slashes), SEP)
        full == [i \in 1..initial_slashes |-> SEP] \o path
    IN  IF full = <<>> THEN <<".">> ELSE full

within_dir(base, p) ==
    LET base_abs == abspath(base)
        p_abs == abspath(p)
    IN  StartsWith(p_abs, base_abs \o <<SEP>>) \/ p_abs = base_abs

WithinDir ==
    /\ call.fn = "none"
    /\ call' = [fn |-> "within_dir", args |-> call.args,
                result |-> within_dir(call.args[1], call.args[2])]
    /\ UNCHANGED <<OWNERSHIP_FILE, store_io>>
    /\ HostUnchanged

\* base: an absolute directory of fewer than MaxSegs names (the root included);
\* the candidate: an absolute path of up to MaxSegs components, "." and ".." among them
InitWithin ==
    LET names == {<<"a">>, <<"a", "b">>}
        components == names \cup {<<".">>, <<".", ".">>}
        paths(C, n) == {<<SEP>> \o Join(cs, SEP) : cs \in UNION {[1..k -> C] : k \in 0..n}}
    IN  /\ HostIdle
        /\ \E base \in paths(names, MaxSegs - 1), p \in paths(components, MaxSegs) :
               call = [fn |-> "none", args |-> <<base, p>>, result |-> FALSE]
        /\ store_io = NoStoreIo

\* within_dir over every base directory and candidate
SpecWithin == InitWithin /\ [][WithinDir]_vars

(***************************************************************************)
(* Properties of the lifecycle and of the watchdog                          *)
(***************************************************************************)
AliveOf(tid) == {p \in Pids : procs[p].alive /\ procs[p].tid = tid}
StartOf(out) == lastOp.op = "start" /\ lastOp.out = out
Record(tid) == DictGet(load_ownership(OWNERSHIP_FILE), tid)
HasRecord(tid) == DictHas(load_ownership(OWNERSHIP_FILE), tid)
Waiting(tid) == wd.pc \in {"down_admin", "down_owner"} /\ wd.cur = tid
Registered(rp) == {e.tid : e \in rp}

\* C1: at most one child process runs per identifier at any time (a start ends
\* the process the identifier had before it begins the new one).
C1_OneProcessPerId == \A tid \in TIDs : Cardinality(AliveOf(tid)) <= 1

\* C2: two consecutive watchdog ticks that both find a target down, less than the
\* cooldown apart, produce one "down" notification for it, not two.
C2_OneDownAlertPerCooldown == \A tid \in scope : wd.pair[tid] # 2

\* C3: in a tick, every desired-running target found without a live registry
\* handle gets exactly one start attempt, whether its notification was sent or
\* suppressed; a target found alive gets none, and no watched target is skipped.
C3_RestartEveryTick ==
    \A tid \in scope :
        /\ (wd.seen[tid] = "down" /\ ~Waiting(tid)) => wd.starts[tid] = 1
        /\ (wd.seen[tid] # "down" \/ Waiting(tid)) => wd.starts[tid] = 0
        /\ wd.seen[tid] # "none" => tid \in wd.watch
        /\ (wd.pc = "idle" /\ tid \in wd.watch) => wd.seen[tid] # "none"

C3_Witness ==
    \E tid \in scope :
        wd.pc = "idle" /\ wd.seen[tid] = "down" /\ ~wd.alerted[tid] /\ wd.starts[tid] = 1

\* C4: after stop(id) returns, the registry has no item for id and the target's
\* desired-running flag is false, whatever held before.
C4_StopClears ==
    lastOp.op = "stop" =>
        /\ ~RegHas(running_processes, lastOp.tid)
        /\ ~desired_running(OWNERSHIP_FILE, lastOp.tid)

C4_Witness == lastOp.op = "stop" /\ lastOp.had /\ lastOp.sig /\ lastOp.lr

\* C5: stop is idempotent (a second stop leaves registry, store and processes as
\* the first left them), and a stop of an identifier without a registry item
\* changes nothing but the desired-running flag, which it clears.
C5_StopIdempotent ==
    \A tid \in scope :
        LET w1 == stop_process(World, tid)
            w2 == stop_process(w1, tid)
            before == load_ownership(OWNERSHIP_FILE)
            after == load_ownership(w1.file)
        IN  /\ w2.rp = w1.rp /\ w2.file = w1.file /\ w2.procs = w1.procs /\ w2.fs = w1.fs
            /\ ~RegHas(running_processes, tid) =>
                  /\ w1.rp = running_processes /\ w1.procs = procs /\ w1.fs = fs
                  /\ after = IF DictHas(before, tid)
                             THEN DictSet(before, tid, [DictGet(before, tid) EXCEPT !.last_run = FALSE])
                             ELSE before
                  /\ ~DictHas(before, tid) => w1.file = OWNERSHIP_FILE

C5_Witness ==
    /\ lastOp.op = "stop" /\ lastOp.caller = "stop" /\ ~lastOp.had /\ ~lastOp.lr
    /\ HasRecord(lastOp.tid)

\* C6: the registry never holds two items for one identifier.
C6_OneHandlePerId ==
    \A e1, e2 \in running_processes : e1.tid = e2.tid => e1 = e2

C6_Witness ==
    /\ StartOf("spawned") /\ lastOp.had /\ lastOp.sig
    /\ Cardinality({e \in running_processes : e.tid = lastOp.tid}) = 1

\* C7: the "down" notification and the resource notification of one target are
\* rate-limited independently: a suppressed notification of either kind has one
\* of the same kind less than a cooldown before it.
C7_IndependentCooldowns ==
    \A tid \in scope :
        LET h == hist[tid]
        IN  /\ (wd.seen[tid] = "down" /\ ~wd.alerted[tid]) =>
                  (h.prev.at - h.down_at) < ALERT_COOLDOWN_SEC
            /\ (wd.seen[tid] = "breach" /\ ~wd.alerted[tid]) =>
                  (h.prev.at - h.res_at) < ALERT_COOLDOWN_SEC

\* a "down" notification suppressed with no "down" notification ever sent, less
\* than a cooldown after a resource notification
C7_Witness ==
    \E tid \in scope :
        /\ wd.seen[tid] = "down" /\ ~wd.alerted[tid]
        /\ hist[tid].down_at = 0 /\ hist[tid].res_at > 0
        /\ (hist[tid].prev.at - hist[tid].res_at) < ALERT_COOLDOWN_SEC

\* C8: after a start that spawned, the registry maps the identifier to a new
\* handle of a live process, with the start time set to now and the last alert
\* time reset to 0, and the identifier's record, where the store has one, is
\* marked desired-running.
C8_StartRegisters ==
    StartOf("spawned") =>
        /\ RegHas(running_processes, lastOp.tid)
        /\ LET e == RegGet(running_processes, lastOp.tid)
           IN  /\ e.process # lastOp.old
               /\ procs[e.process].alive /\ procs[e.process].tid = lastOp.tid
               /\ e.started_at = now
               /\ e.last_alert = 0
        /\ HasRecord(lastOp.tid) => Record(lastOp.tid).last_run = TRUE

C8_Witness == StartOf("spawned") /\ HasRecord(lastOp.tid) /\ ~lastOp.lr /\ ~lastOp.had

\* C9: a start that finds no runnable command does not raise, adds no registry
\* item (the one the identifier had stays, with its handle) and leaves the
\* desired-running flag as it was.
C9_NoCommandNoChange ==
    StartOf("no_cmd") =>
        /\ ~lastOp.propagated
        /\ RegHas(running_processes, lastOp.tid) = lastOp.had
        /\ lastOp.had => RegGet(running_processes, lastOp.tid).process = lastOp.old
        /\ desired_running(OWNERSHIP_FILE, lastOp.tid) = lastOp.lr

C9_Witness == StartOf("no_cmd") /\ lastOp.had /\ lastOp.sig

\* C10: a spawn error in a start is caught and logged, never propagated to the
\* caller, and does not leave the registry with an item for the handle the start
\* has just terminated.
C10_SpawnErrorContained ==
    StartOf("raised") =>
        /\ ~lastOp.propagated
        /\ ~(/\ lastOp.sig
             /\ RegHas(running_processes, lastOp.tid)
             /\ RegGet(running_processes, lastOp.tid).process = lastOp.old)

\* a spawn error that left the "Run Now" or "Restart" handler of a recorded target,
\* the registry still naming the process the start had signalled
C10_Witness ==
    /\ StartOf("raised") /\ lastOp.propagated /\ HasRecord(lastOp.tid)
    /\ lastOp.sig
    /\ RegHas(running_processes, lastOp.tid)
    /\ RegGet(running_processes, lastOp.tid).process = lastOp.old

(***************************************************************************)
(* Properties of the auto-start sweep                                      *)
(***************************************************************************)
\* a run command can be resolved for tid
Startable(file, f, tid) ==
    resolve_run_command(f, paths_of[tid].work_dir,
                        IF repo_ids[tid] THEN get_entry(file, tid) ELSE paths_of[tid].script).found

CalledBy(log) == {log[i].tid : i \in 1..Len(log)}
OutcomeIn(log, tid) == {log[i].out : i \in {j \in 1..Len(log) : log[j].tid = tid}}

\* C11: the auto-start sweep calls start once for exactly the records whose
\* desired-running flag is true, whatever the other calls did: a start that finds
\* no command or raises does not keep a later record from being started, and the
\* registry afterwards holds exactly the identifiers whose start spawned.
C11_AutoStartExactlyFlagged ==
    [][(phase = "boot" /\ phase' = "serving") =>
          /\ CalledBy(sweep') = {tid \in scope : desired_running(OWNERSHIP_FILE, tid)}
          /\ Len(sweep') = Cardinality(CalledBy(sweep'))
          /\ Registered(running_processes') = {tid \in scope : "spawned" \in OutcomeIn(sweep', tid)}
          /\ \A tid \in CalledBy(sweep') :
                 Startable(OWNERSHIP_FILE, fs, tid) <=> OutcomeIn(sweep', tid) \subseteq {"spawned", "raised"}]_vars

\* two records, one of them flagged and startable: one registry item after the sweep
C11_Witness ==
    /\ phase = "serving"
    /\ Len(sweep) = 1
    /\ sweep[1].out = "spawned"
    /\ Len(load_ownership(OWNERSHIP_FILE)) = 2
    /\ Cardinality(running_processes) = 1
    /\ \E tid \in scope : ~desired_running(OWNERSHIP_FILE, tid)

(***************************************************************************)
(* Properties of the identifier scheme                                     *)
(***************************************************************************)
\* C18: every identifier gets exactly one of the three types: the two predicates
\* never both hold, the layout resolve_paths returns is the one of the type (user
\* file: scripts/<uid>; repository file: scripts/<repo>; legacy: scripts, the
\* identifier itself as the script), and legacy is what is left when neither holds.
C18_OneTypePerIdentifier ==
    call.fn = "classify" =>
        LET tid == call.args[1]
            r == call.result
            head == Split1(tid, "|")[1]
        IN  /\ ~(r.user_file /\ r.repo)
            /\ r.kind \in {"user_file", "repo_file", "legacy"}
            /\ r.kind = "user_file" <=> r.user_file
            /\ r.kind = "repo_file" <=> r.repo
            /\ r.kind = "legacy" <=> ~Contains(tid, "|")
            /\ r.user_file => r.paths.work_dir = PathJoin(UPLOAD_DIR, Tail(head))
            /\ r.repo => r.paths.work_dir = PathJoin(UPLOAD_DIR, head)
            /\ r.kind = "legacy" => r.paths.work_dir = UPLOAD_DIR /\ r.paths.script = tid

\* an identifier of each type has been classified
C18_Witness ==
    /\ call.fn = "classify"
    /\ call.args[1] = <<"u", "1", "|", "a">>
    /\ call.result.kind = "user_file"

\* C19: an identifier with more than one separator is legacy: neither a user file
\* nor a repository file.
C19_MultiSeparatorIsLegacy ==
    (call.fn = "classify" /\ Count(call.args[1], "|") > 1) =>
        /\ ~call.result.user_file
        /\ ~call.result.repo
        /\ call.result.kind = "legacy"

\* an identifier with two separators has been classified as a repository file
C19_Witness ==
    /\ call.fn = "classify"
    /\ call.args[1] = <<"a", "|", "a", "|">>
    /\ call.result.repo

(***************************************************************************)
(* Properties of within_dir                                                *)
(***************************************************************************)
\* the directory names a path leads through from the root, "." and ".." followed
RECURSIVE Walk(_, _)
Walk(comps, at) ==
    IF comps = <<>> THEN at
    ELSE IF Head(comps) \in {<<>>, <<".">>} THEN Walk(Tail(comps), at)
    ELSE IF Head(comps) = <<".", ".">>
    THEN Walk(Tail(comps), IF at = <<>> THEN at ELSE SubSeq(at, 1, Len(at) - 1))
    ELSE Walk(Tail(comps), Append(at, Head(comps)))

\* C20: within_dir(base, candidate) is true iff the candidate, its "." and ".."
\* followed, is the base directory or lies below it.
C20_WithinIffNested ==
    call.fn = "within_dir" =>
        LET base == Walk(SplitAll(call.args[1], SEP), <<>>)
            cand == Walk(SplitAll(call.args[2], SEP), <<>>)
        IN  call.result <=> (Len(cand) >= Len(base) /\ SubSeq(cand, 1, Len(base)) = base)

\* a candidate below the root directory has been refused for the base "/"
C20_Witness ==
    /\ call.fn = "within_dir"
    /\ call.args = <<<<SEP>>, <<SEP, "a">>>>
    /\ ~call.result

(***************************************************************************)
(* Properties of the ownership store                                       *)
(***************************************************************************)
KeyIn(file, tid) == DictGet(load_ownership(file), tid).key
Holds(file, tid) == DictHas(load_ownership(file), tid)

\* C13: the key of a record is changed by no store mutation other than a creation:
\* the writes of start and stop (set_last_run), of entry discovery (set_entry) and
\* of delete leave the key of every record they keep, and a rename puts the record
\* under the new identifier with the key it had under the old one.
C13_KeyKeptByMutations ==
    [][OWNERSHIP_FILE' # OWNERSHIP_FILE =>
          LET m == store_io.txns[1].m
          IN  /\ m.op \in {"set_last_run", "set_entry", "delete"} =>
                     \A tid \in {P, R} :
                         (Holds(OWNERSHIP_FILE, tid) /\ Holds(OWNERSHIP_FILE', tid)) =>
                             KeyIn(OWNERSHIP_FILE', tid) = KeyIn(OWNERSHIP_FILE, tid)
              /\ (m.op = "rename" /\ Holds(OWNERSHIP_FILE, m.tid)) =>
                     /\ Holds(OWNERSHIP_FILE', m.new_tid)
                     /\ KeyIn(OWNERSHIP_FILE', m.new_tid) = KeyIn(OWNERSHIP_FILE, m.tid)]_vars

\* a rename has put the placeholder's record, with its key, where an older record
\* with another key was
C13_Witness ==
    /\ store_io.last.m.op = "rename"
    /\ store_io.last.outcome = "done"
    /\ Holds(store_io.last.base, R)
    /\ Holds(store_io.last.base, P)
    /\ KeyIn(store_io.last.base, R) # KeyIn(store_io.last.base, P)
    /\ KeyIn(OWNERSHIP_FILE, R) = KeyIn(store_io.last.base, P)

\* C14: a reader of the store, at any moment of a rename, finds either the store as
\* it was before the rename or the store after it, in which the record is gone
\* from the old identifier and stands under the new one with its entry set: never
\* under neither, and under both only where the new identifier had a record of its
\* own before the rename began.
C14_RenameAtomicForReaders ==
    LET m == store_io.seen.m
        before == load_ownership(store_io.seen.base)
        data == store_io.seen.data
    IN  (m.op = "rename" /\ DictHas(before, m.tid)) =>
            /\ DictHas(data, m.tid) \/ DictHas(data, m.new_tid)
            /\ (DictHas(data, m.tid) /\ DictHas(data, m.new_tid)) =>
                   (data = before /\ DictHas(before, m.new_tid))
            /\ data # before =>
                   /\ ~DictHas(data, m.tid)
                   /\ DictGet(data, m.new_tid) = [DictGet(before, m.tid) EXCEPT !.entry = MAIN_PY]

\* the HTTP thread has read the store while a rename had its .tmp file written and
\* not yet replaced, and found the record under the old identifier only
C14_Witness ==
    /\ store_io.txns # <<>>
    /\ store_io.txns[1].m.op = "rename"
    /\ store_io.txns[1].pc = "replace"
    /\ store_io.seen.m.op = "rename"
    /\ DictHas(store_io.seen.data, P)
    /\ ~DictHas(store_io.seen.data, R)

\* C15: the mutations of the store are applied one after the other: what a
\* mutation writes is its change applied to the store as last written, and the
\* store a mutation under way has read is still the store on disk.
C15_MutationsSerialized ==
    [][/\ \A i \in 1..Len(store_io.txns') : store_io.txns'[i].base = OWNERSHIP_FILE'
       /\ OWNERSHIP_FILE' # OWNERSHIP_FILE =>
              \E i \in 1..Len(store_io.txns) :
                  /\ store_io.txns[i].pc = "replace"
                  /\ OWNERSHIP_FILE' = store_writes(OWNERSHIP_FILE, store_io.txns[i].m)[1]]_vars

\* the placeholder's record was flagged, then renamed: the flag is in the record
\* under the new identifier
C15_Witness ==
    /\ store_io.last.m.op = "rename"
    /\ store_io.last.outcome = "done"
    /\ store_io.begun = 2
    /\ Holds(store_io.last.base, P)
    /\ DictGet(load_ownership(store_io.last.base), P).last_run
    /\ DictGet(load_ownership(OWNERSHIP_FILE), R).last_run

\* C16: a write of the store either ends with the whole new content in place or
\* leaves the file as it was: a write that raised at any statement left the prior
\* content, until os.replace the file is the one the mutation read, and at no
\* moment does the file hold anything but a complete store.
C16_WriteAllOrNothing ==
    /\ OWNERSHIP_FILE.exists => OWNERSHIP_FILE.valid
    /\ store_io.last.outcome = "failed" => OWNERSHIP_FILE = store_io.last.base
    /\ store_io.last.outcome = "done" => OWNERSHIP_FILE = store_io.last.wrote
    /\ store_io.seen.m.op # "none" =>
           store_io.seen.data \in {load_ownership(store_io.seen.base)}
                                  \cup {load_ownership(f) : f \in {store_io.last.wrote} \ {<<>>}}

\* json.dump raised: the half-written .tmp file is left, ownership.json is as before
C16_Witness ==
    /\ store_io.last.outcome = "failed"
    /\ store_io.tmp.exists
    /\ ~store_io.tmp.valid
    /\ OWNERSHIP_FILE.exists
    /\ OWNERSHIP_FILE = store_io.last.base

(***************************************************************************)
(* Properties of the status endpoint                                       *)
(***************************************************************************)
\* C12: a status request for an identifier is answered Forbidden (403) whenever
\* the identifier has no record or the key given is not the record's key, with the
\* same response in both cases; it is answered running or stopped only when the
\* key is the record's, and then running iff the registry holds a live process.
C12_ForbiddenUnlessKeyMatches ==
    [][(call' # call /\ call'.fn = "status" /\ call'.args[1] # <<>>) =>
          LET script == call'.args[1]
              key == call'.args[2]
              absent == ~Holds(OWNERSHIP_FILE, script)
              matches == ~absent /\ key = KeyIn(OWNERSHIP_FILE, script)
              live == \E e \in running_processes : e.tid = script /\ procs[e.process].alive
          IN  /\ ~matches => call'.result = [body |-> <<"Forbidden">>, code |-> 403]
              /\ matches => call'.result.code = (IF live THEN 200 ELSE 404)
              /\ matches => call'.result.body = <<(IF live THEN "running" ELSE "stopped"), script>>]_vars

\* a request with a wrong key for a recorded, running target was answered Forbidden
C12_Witness ==
    /\ call.fn = "status"
    /\ call.result.code = 403
    /\ Holds(OWNERSHIP_FILE, call.args[1])
    /\ call.args[2] # KeyIn(OWNERSHIP_FILE, call.args[1])
    /\ call.args[1] \in Registered(running_processes)

(***************************************************************************)
(* Properties of the reads over a damaged file                             *)
(***************************************************************************)
\* C17: when ownership.json is missing, unreadable or invalid, every read of the
\* store returns what it returns on an empty store, and none raises.
C17_DamagedFileReadsAsEmpty ==
    LET empty == EmptyWorld.file
        fn == call.fn
        tid == call.args[2]
    IN  (fn # "none" /\ (~OWNERSHIP_FILE.exists \/ ~OWNERSHIP_FILE.valid \/ ~OWNERSHIP_FILE.dict)) =>
            /\ ~call.result.raised
            /\ call.result.value =
                   CASE fn = "get_owner" -> <<get_owner(empty, tid)>>
                     [] fn = "get_app_key" -> <<get_app_key(empty, tid)>>
                     [] fn = "get_entry" -> <<get_entry(empty, tid)>>
                     [] OTHER -> load_ownership(empty)

\* get_app_key raised over a file that holds JSON other than an object
C17_Witness ==
    /\ call.fn = "get_app_key"
    /\ not_a_dict(OWNERSHIP_FILE)
    /\ call.result.raised

(***************************************************************************)
(* Properties of the log paths                                             *)
(***************************************************************************)
\* C21: the log file of an identifier is one entry directly in the root directory:
\* its path is the root joined with a name that has no path separator.
C21_LogIsOneEntryInRoot ==
    call.fn = "log_path" =>
        LET path == call.result[1]
            name == SubSeq(path, Len(UPLOAD_DIR) + 2, Len(path))
        IN  /\ path = UPLOAD_DIR \o <<SEP>> \o name
            /\ ~Contains(name, SEP)

\* the log of a repository file in a subdirectory lies below a directory of the root
C21_Witness ==
    /\ call.fn = "log_path"
    /\ call.args[1] = RepoId(RepoName(UPLOADER), <<"a", SEP, "a">>)
    /\ call.result[1] = UPLOAD_DIR \o <<SEP>> \o RepoName(UPLOADER) \o <<"_", "a", SEP, "a", ".", "l", "o", "g">>

\* C29: distinct identifiers have distinct log paths.
C29_DistinctLogPaths ==
    (call.fn = "log_path" /\ call.args[1] # call.args[2]) => call.result[1] # call.result[2]

\* two uploads of one user whose names differ in "|" against "_" share a log
C29_Witness ==
    /\ call.fn = "log_path"
    /\ call.args = <<UserFileId(UPLOADER, <<"a", "|", "a">>), UserFileId(UPLOADER, <<"a", "_", "a">>)>>
    /\ call.result[1] = call.result[2]

(***************************************************************************)
(* Properties of tail_log                                                  *)
(***************************************************************************)
\* C22: tail_log(id, n) returns the last min(L, max(50, min(n, 800))) lines of a
\* log of L lines (so between 50 and 800 of them when n = 10 and L >= 800), and the
\* "no logs" message when the log file does not exist.
C22_TailClamped ==
    call.fn = "tail_log" =>
        LET log == call.args[1]
            n == call.args[2]
            L == Len(log.data)
            least == IF n < 800 THEN n ELSE 800
            clamped == IF 50 > least THEN 50 ELSE least
            k == IF L < clamped THEN L ELSE clamped
            returned == (Len(call.result) + 1) \div 2
        IN  /\ ~log.exists => call.result = "No logs."
            /\ (log.exists /\ L > 0) =>
                   /\ Len(call.result) = 2 * k - 1
                   /\ \A i \in 1..k : call.result[2 * i - 1] = log.data[L - k + i]
                   /\ \A i \in 1..(k - 1) : call.result[2 * i] = "\n"
                   /\ (n = 10 /\ L >= 800) => returned >= 50 /\ returned <= 800

\* ten lines asked of a log of 800: the last fifty come back
C22_Witness ==
    /\ call.fn = "tail_log"
    /\ call.args[1].exists /\ Len(call.args[1].data) = 800
    /\ call.args[2] = 10
    /\ Len(call.result) = 99
    /\ call.result[1] = 751 /\ call.result[99] = 800

(***************************************************************************)
(* Properties of a tick against the handlers that run while it waits       *)
(***************************************************************************)
\* the registry without the last-alert times
Unstamped(rp) == {[e EXCEPT !.last_alert = 0] : e \in rp}

\* the step is the part of a tick that finds tid alive: the tick begins and visits
\* it, or the resource notification it waited in for tid returns
AliveVisit(tid) ==
    \/ wd.pc = "idle" /\ next_tick' # next_tick /\ wd'.seen[tid] \in {"alive", "breach"}
    \/ wd.pc \in {"res_admin", "res_owner"} /\ wd.cur = tid /\ wd'.pc # wd.pc

\* C25: a tick that finds its target alive changes nothing but the target's
\* last-alert time: the registry keeps the handle, the log and the start time, no
\* process is signalled or spawned, and the store and the files stay as they are,
\* whatever the usage sampled.
C25_AliveTargetOnlyStamped ==
    [][\A tid \in scope :
          AliveVisit(tid) =>
              /\ Unstamped(running_processes') = Unstamped(running_processes)
              /\ procs' = procs
              /\ OWNERSHIP_FILE' = OWNERSHIP_FILE
              /\ fs' = fs
              /\ lastOp'.op = "none"]_vars

\* a tick found the target over the threshold, both notifications went out and the
\* item was stamped
C25_Witness ==
    \E tid \in scope :
        /\ wd.pc = "idle" /\ wd.seen[tid] = "breach" /\ wd.alerted[tid]
        /\ RegHas(running_processes, tid)
        /\ RegGet(running_processes, tid).last_alert = now
        /\ AliveOf(tid) # {}

\* C26: a tick that waits in the "down" notification of a target does not, once
\* resumed, spawn a process for the target or set its flag again when the target
\* was stopped in the meantime.
C26_NoStartAfterStop ==
    [][\A tid \in scope :
          (/\ Waiting(tid)
           /\ lastOp.op = "stop" /\ lastOp.tid = tid
           /\ ~desired_running(OWNERSHIP_FILE, tid)
           /\ wd'.pc # wd.pc)
          => /\ ~RegHas(running_processes', tid)
             /\ ~desired_running(OWNERSHIP_FILE', tid)]_vars

\* the target was stopped while the tick waits in its notification
C26_Witness ==
    \E tid \in scope :
        /\ Waiting(tid)
        /\ lastOp.op = "stop" /\ lastOp.tid = tid /\ lastOp.caller = "stop" /\ lastOp.lr
        /\ HasRecord(tid) /\ ~desired_running(OWNERSHIP_FILE, tid)

\* C27: every identifier with a registry item has an ownership record.
C27_RegisteredHasRecord ==
    \A e \in running_processes : HasRecord(e.tid)

\* the watchdog has spawned and registered a process for an identifier whose record
\* was deleted while the tick waited in its notification
C27_Witness ==
    /\ StartOf("spawned") /\ lastOp.caller = "watchdog"
    /\ RegHas(running_processes, lastOp.tid)
    /\ AliveOf(lastOp.tid) # {}
    /\ ~HasRecord(lastOp.tid)

\* C28: an identifier with a registry item and an ownership record has
\* desired-running = true.
C28_RegisteredIsDesired ==
    \A e \in running_processes : HasRecord(e.tid) => desired_running(OWNERSHIP_FILE, e.tid)

\* a running target whose record says it is not to run
C28_Witness ==
    \E e \in running_processes :
        /\ AliveOf(e.tid) # {}
        /\ HasRecord(e.tid) /\ Record(e.tid).last_run = FALSE

(***************************************************************************)
(* Properties of the sweep over two targets                                *)
(***************************************************************************)
\* C24: whatever fails for one target of a tick (the usage sample, a notification,
\* the start), the tick goes on: when it ends, every identifier of its watch list
\* has been visited, and every one it found down has had its start attempt.
C24_SweepNeverAborted ==
    (wd.pc = "idle" /\ wd.watch # {}) =>
        \A tid \in wd.watch :
            /\ wd.seen[tid] # "none"
            /\ wd.seen[tid] = "down" => wd.starts[tid] = 1

\* the start of the first target of the watch list raised, and the second target was
\* sampled after it
C24_Witness ==
    /\ wd.pc = "idle" /\ wd.watch = {U, P}
    /\ StartOf("raised") /\ lastOp.caller = "watchdog"
    /\ Len(watch_list(OWNERSHIP_FILE)) = 2
    /\ watch_list(OWNERSHIP_FILE)[1].tid = lastOp.tid
    /\ wd.seen[lastOp.tid] = "down" /\ wd.alerted[lastOp.tid]
    /\ \E other \in wd.watch \ {lastOp.tid} : wd.seen[other] = "alive"

(***************************************************************************)
(* Properties of the ENABLE_ALERTS switch                                  *)
(***************************************************************************)
\* C30: with ENABLE_ALERTS off no watchdog tick has any effect: no tick is run, no
\* notification is waited for or recorded, and every start of a target comes from a
\* user's run or restart, from restart-all or from the auto-start at boot.
C30_NoWatchdogWhenAlertsOff ==
    ~ENABLE_ALERTS =>
        /\ wd = IdleWd
        /\ next_tick = BootTime
        /\ lastOp.op = "start" => lastOp.caller \in {"rerun", "run", "select", "auto"}

\* alerts are off, a tick interval has passed, and a target that is to run has a
\* registry item whose process has exited
C30_Witness ==
    /\ ~ENABLE_ALERTS
    /\ now >= BootTime + HEALTHCHECK_INTERVAL_SEC
    /\ \E e \in running_processes :
           /\ desired_running(OWNERSHIP_FILE, e.tid)
           /\ ~poll_is_None(procs, e.process)
           /\ AliveOf(e.tid) = {}

(***************************************************************************)
(* Progress of the watchdog                                                *)
(***************************************************************************)
\* tid is to run and has no live process
Down(tid) ==
    /\ tid \in scope
    /\ phase = "serving"
    /\ desired_running(OWNERSHIP_FILE, tid)
    /\ ~(RegHas(running_processes, tid) /\ poll_is_None(procs, RegGet(running_processes, tid).process))

\* a tick is due, or comes due within the time of the behaviour
TickToCome == now >= next_tick \/ advances < MaxAdvances

\* the watchdog has called start for tid; where a command resolved and the spawn
\* succeeded, tid is registered with a live process
Attempted(tid) ==
    /\ lastOp.op = "start" /\ lastOp.caller = "watchdog" /\ lastOp.tid = tid
    /\ lastOp.out = "spawned" =>
           /\ RegHas(running_processes, tid)
           /\ poll_is_None(procs, RegGet(running_processes, tid).process)

\* C23: a target that is to run and has no live process, with a tick still to come,
\* leads to a start attempt by the watchdog that leaves it running when a command
\* resolves and the spawn succeeds, unless it stops being such a target before (it is
\* stopped, deleted, or started by a user).
C23_DownLeadsToStart ==
    \A tid \in TIDs : (Down(tid) /\ TickToCome) ~> (Attempted(tid) \/ ~Down(tid))

\* the watchdog has restarted a target whose process had exited, and the tick is over
C23_Witness ==
    /\ wd.pc = "idle"
    /\ StartOf("spawned") /\ lastOp.caller = "watchdog"
    /\ lastOp.had /\ ~lastOp.sig /\ lastOp.lr
    /\ Attempted(lastOp.tid)
    /\ AliveOf(lastOp.tid) # {}

====
